----------------------------- MODULE Transfers ------------------------------
(***************************************************************************)
(* Files between the staging directory and the guests: upload links        *)
(* (src/src/beaconmcp/transfers.py), and proxmox_upload_file,              *)
(* proxmox_fetch_url, proxmox_download_file and proxmox_delete_transfer of *)
(* src/src/beaconmcp/proxmox/system.py.                                    *)
(*                                                                         *)
(* Each transfer is a coroutine; a step is what it does from one await to  *)
(* the next.  The SSH operations it awaits succeed or fail (SshClient); a  *)
(* request can be cancelled while it awaits (a restart of the server).     *)
(*                                                                         *)
(* A file's content is a number: 0 is no file, n > 0 the bytes transfer n  *)
(* brought, whole, and -n a part of them or a mixture.  Own bytes that     *)
(* were there from the beginning are number MaxTransfer + 1.  Staging file *)
(* <<n, "file">> belongs to transfer n (upload-<id>, fetch-<id>);          *)
(* <<0, "file">> is the one name that tools read and write by name, and    *)
(* "part" is the file beside it that is still being written.  The code     *)
(* accepts any basename there; that a tool is given the name of another    *)
(* transfer's file or of a part is left out, except for deletion.  Each    *)
(* kind of guest has one file that is read and written.                    *)
(*                                                                         *)
(* Definitions whose names end in Bug are not part of the specification:   *)
(* they are what the definition after them must not be.                    *)
(***************************************************************************)
EXTENDS Integers, Sequences, FiniteSets

CONSTANTS
  MAX_PENDING_LINKS,
  MaxTransfer   \* bound on the transfers

ASSUME TransfersAssumption == MaxTransfer \in Nat /\ MAX_PENDING_LINKS \in Nat

VARIABLES
  transfers,  \* UploadLink objects and coroutines of tools, in the order of their start
  staged,     \* the staging directory
  nodeTmp,    \* /tmp/beaconmcp-... on the node, for each transfer
  guestFile,  \* external: the file in the container and the one in the VM
  raced       \* history: two downloads to the same name overlapped

transferVars == <<transfers, staged, nodeTmp, guestFile, raced>>

Guest == {"lxc", "qemu"}
Path  == (0..MaxTransfer) \X {"file", "part"}
Part(c) == IF c > 0 THEN -c ELSE c

TransferInit ==
  /\ transfers = <<>>
  /\ staged \in {[p \in Path |-> IF p = <<0, "file">> THEN c ELSE 0] : c \in {0, MaxTransfer + 1}}
  /\ nodeTmp = [n \in 1..MaxTransfer |-> 0]
  /\ guestFile = [g \in Guest |-> MaxTransfer + 1]
  /\ raced = FALSE

Own(n)     == <<n, "file">>
OwnPart(n) == <<n, "part">>
Plain      == <<0, "file">>
PlainPart  == <<0, "part">>
Source(n)  == IF transfers[n].op = "upload" THEN Plain ELSE Own(n)

At(n, pc)      == transfers[n].pc = pc
Goto(n, pc)    == transfers' = [transfers EXCEPT ![n].pc = pc]
Begin(op, g, verify, pc) ==
  /\ Len(transfers) < MaxTransfer
  /\ transfers' = Append(transfers, [op |-> op, guest |-> g, verify |-> verify, pc |-> pc,
                                     sha |-> 0, data |-> 0, failed |-> FALSE, left |-> FALSE,
                                     open |-> "none"])

\* The end of a transfer.  The files a link or a fetch staged go whatever
\* happens (the finally of _receive_and_push and proxmox_fetch_url).
UnlinkedBug(n) == [staged EXCEPT ![OwnPart(n)] = 0]
Unlinked(n)    == [staged EXCEPT ![OwnPart(n)] = 0, ![Own(n)] = 0]

Over(result, left) == [pc |-> "done", result |-> result, left |-> left]
Verified(n, got)   == [pc |-> "done", result |-> "verified", left |-> transfers[n].left,
                       op |-> transfers[n].op, sha |-> transfers[n].sha, got |-> got]

Finish(n, over) ==
  /\ transfers' = [transfers EXCEPT ![n] = over]
  /\ staged' = Unlinked(n)

-----------------------------------------------------------------------------
(***************************************************************************)
(* Links.                                                                  *)
(***************************************************************************)
Pending == {n \in DOMAIN transfers : At(n, "pending")}

issue(g, verify) ==
  /\ Cardinality(Pending) < MAX_PENDING_LINKS
  /\ Begin("link", g, verify, "pending")

\* Of a running guest.
proxmox_upload_link(g, verify) ==
  /\ issue(g, verify)
  /\ UNCHANGED <<staged, nodeTmp, guestFile, raced>>

link_expires(n) ==
  /\ At(n, "pending")
  /\ transfers' = [transfers EXCEPT ![n] = Over("error", FALSE)]
  /\ UNCHANGED <<staged, nodeTmp, guestFile, raced>>

\* claim, and _receive_and_push until the body is awaited; a request it refuses
\* for its headers has spent the link.
claim(n) ==
  /\ At(n, "pending")
  /\ Goto(n, "receive")
  /\ staged' = [staged EXCEPT ![OwnPart(n)] = Part(n)]
  /\ UNCHANGED <<nodeTmp, guestFile, raced>>

claim_refused(n) ==
  /\ At(n, "pending")
  /\ transfers' = [transfers EXCEPT ![n] = Over("error", transfers[n].left)]
  /\ UNCHANGED <<staged, nodeTmp, guestFile, raced>>

\* The whole body is there: the part takes the staged name.
received(n) ==
  /\ At(n, "receive") /\ staged[OwnPart(n)] # 0
  /\ staged' = [staged EXCEPT ![Own(n)] = n, ![OwnPart(n)] = 0]
  /\ Goto(n, "check")
  /\ UNCHANGED <<nodeTmp, guestFile, raced>>

\* proxmox_fetch_url, after its own look at the guest, until the answer of the
\* server; the file is opened when it comes.
fetch_url(g, verify) ==
  /\ Begin("fetch", g, verify, "fetch")
  /\ UNCHANGED <<staged, nodeTmp, guestFile, raced>>

fetch_answers(n) ==
  /\ At(n, "fetch")
  /\ Goto(n, "receive")
  /\ staged' = [staged EXCEPT ![OwnPart(n)] = Part(n)]
  /\ UNCHANGED <<nodeTmp, guestFile, raced>>

upload_file(g, verify) ==
  /\ staged[Plain] # 0
  /\ Begin("upload", g, verify, "check")
  /\ UNCHANGED <<staged, nodeTmp, guestFile, raced>>

-----------------------------------------------------------------------------
(***************************************************************************)
(* _push_staged.                                                           *)
(***************************************************************************)
\* The guest is running.
guest_is_running(n) ==
  /\ At(n, "check")
  /\ Goto(n, IF transfers[n].verify THEN "hash" ELSE "put")
  /\ UNCHANGED <<staged, nodeTmp, guestFile, raced>>

hash_local(n) ==
  /\ At(n, "hash") /\ staged[Source(n)] # 0
  /\ transfers' = [transfers EXCEPT ![n].pc = "put", ![n].sha = staged[Source(n)]]
  /\ UNCHANGED <<staged, nodeTmp, guestFile, raced>>

\* To a file of its own on the node, on the way to a container.
put_on_node(n) ==
  /\ At(n, "put") /\ transfers[n].guest = "lxc" /\ staged[Source(n)] # 0
  /\ nodeTmp' = [nodeTmp EXCEPT ![n] = staged[Source(n)]]
  /\ transfers' = [transfers EXCEPT ![n].pc = "push"]
  /\ UNCHANGED <<staged, guestFile, raced>>

put_on_node_fails(n) ==
  /\ At(n, "put") /\ transfers[n].guest = "lxc"
  /\ nodeTmp' = [nodeTmp EXCEPT ![n] = Part(staged[Source(n)])]
  /\ transfers' = [transfers EXCEPT ![n].pc = "clean", ![n].failed = TRUE]
  /\ UNCHANGED <<staged, guestFile, raced>>

\* pct push, or SFTP right into a VM: the file is there in part before it is
\* there as a whole.
write_begins(n) ==
  LET data == IF transfers[n].guest = "lxc" THEN nodeTmp[n] ELSE staged[Source(n)]
      g    == transfers[n].guest
  IN  /\ At(n, IF g = "lxc" THEN "push" ELSE "put") /\ data # 0
      /\ guestFile' = [guestFile EXCEPT ![g] = Part(data)]
      /\ transfers' = [transfers EXCEPT ![n].pc = "write", ![n].data = data]
      /\ UNCHANGED <<staged, nodeTmp, raced>>

\* Two that write the same file at the same time leave a mixture.
write_ends(n) ==
  LET g == transfers[n].guest  data == transfers[n].data
  IN  /\ At(n, "write")
      /\ guestFile' = [guestFile EXCEPT ![g] = IF @ = Part(data) THEN data ELSE Part(data)]
      /\ IF g = "lxc" THEN Goto(n, "clean") /\ UNCHANGED staged
         ELSE IF transfers[n].verify THEN Goto(n, "verify") /\ UNCHANGED staged
         ELSE Finish(n, Over("success", FALSE))
      /\ UNCHANGED <<nodeTmp, raced>>

\* Also when it is cancelled: the container's copy on the node is removed first.
write_fails(n) ==
  /\ At(n, "write") \/ (At(n, "push") /\ transfers[n].guest = "lxc")
  /\ IF transfers[n].guest = "lxc"
       THEN /\ transfers' = [transfers EXCEPT ![n].pc = "clean", ![n].failed = TRUE]
            /\ UNCHANGED staged
       ELSE Finish(n, Over("error", FALSE))
  /\ UNCHANGED <<nodeTmp, guestFile, raced>>

\* _remove_quietly: best effort.
remove_quietly(n, ok) ==
  /\ At(n, "clean")
  /\ nodeTmp' = [nodeTmp EXCEPT ![n] = IF ok THEN 0 ELSE @]
  /\ IF transfers[n].verify /\ ~ transfers[n].failed
       THEN /\ transfers' = [transfers EXCEPT ![n].pc = "verify", ![n].left = ~ ok]
            /\ UNCHANGED staged
       ELSE Finish(n, Over(IF transfers[n].failed THEN "error" ELSE "success", ~ ok))
  /\ UNCHANGED <<guestFile, raced>>

\* sha256sum in the guest: a different sum is an error, no sha256sum a success
\* that was not verified.
MismatchBug(sha, other) == FALSE
Mismatch(sha, other)    == sha # other

verify_push(n, reply) ==
  LET there == guestFile[transfers[n].guest]
  IN  /\ At(n, "verify")
      /\ CASE reply = "sum"         -> IF Mismatch(transfers[n].sha, there) THEN Finish(n, Over("error", transfers[n].left))
                                       ELSE Finish(n, Verified(n, there))
           [] reply = "unavailable" -> Finish(n, Over("success", transfers[n].left))
           [] OTHER                 -> Finish(n, Over("error", transfers[n].left))
      /\ UNCHANGED <<nodeTmp, guestFile, raced>>

\* What may go wrong, or be cancelled, where nothing but the staged file is left
\* behind: the body breaks off or is too long, the guest is not running or not
\* reachable, the destination is a directory, the staged file is gone.
Harmless == {"fetch", "receive", "check", "hash", "put", "verify"}

push_fails(n) ==
  /\ transfers[n].pc \in Harmless
  /\ ~ (At(n, "put") /\ transfers[n].guest = "lxc")
  /\ Finish(n, Over("error", transfers[n].left))
  /\ UNCHANGED <<nodeTmp, guestFile, raced>>

\* SFTP into a VM breaks off: so does the file in the VM.
put_in_vm_breaks_off(n) ==
  /\ At(n, "put") /\ transfers[n].guest = "qemu" /\ staged[Source(n)] # 0
  /\ guestFile' = [guestFile EXCEPT !["qemu"] = Part(staged[Source(n)])]
  /\ Finish(n, Over("error", FALSE))
  /\ UNCHANGED <<nodeTmp, raced>>

PushStep(n) ==
  /\ ~ At(n, "done") /\ transfers[n].op # "download"
  /\ \/ link_expires(n) \/ claim(n) \/ claim_refused(n) \/ received(n) \/ fetch_answers(n)
     \/ guest_is_running(n) \/ hash_local(n) \/ put_on_node(n) \/ put_on_node_fails(n)
     \/ write_begins(n) \/ write_ends(n) \/ write_fails(n)
     \/ \E ok \in BOOLEAN : remove_quietly(n, ok)
     \/ \E reply \in {"sum", "unavailable", "error"} : verify_push(n, reply)
     \/ push_fails(n) \/ put_in_vm_breaks_off(n)

-----------------------------------------------------------------------------
(***************************************************************************)
(* proxmox_download_file.                                                  *)
(***************************************************************************)
\* A file of that name is refused here, before the first await, unless it may
\* be overwritten.
download_file(g, verify, overwrite) ==
  /\ staged[Plain] = 0 \/ overwrite
  /\ Begin("download", g, verify, "look")
  /\ UNCHANGED <<staged, nodeTmp, guestFile, raced>>

Fails(n) == transfers' = [transfers EXCEPT ![n] = Over("error", transfers[n].left)]

\* The guest is there, the source is not too large, and its checksum is taken, or
\* cannot be.
look_at_source(n, sum) ==
  /\ At(n, "look")
  /\ sum => transfers[n].verify
  /\ transfers' = [transfers EXCEPT ![n].pc = IF transfers[n].guest = "lxc" THEN "pull" ELSE "get",
                                    ![n].sha = IF sum THEN guestFile[transfers[n].guest] ELSE 0]
  /\ UNCHANGED <<staged, nodeTmp, guestFile, raced>>

look_fails(n) ==
  /\ At(n, "look") /\ Fails(n)
  /\ UNCHANGED <<staged, nodeTmp, guestFile, raced>>

pct_pull(n) ==
  /\ At(n, "pull")
  /\ nodeTmp' = [nodeTmp EXCEPT ![n] = guestFile["lxc"]]
  /\ Goto(n, "get")
  /\ UNCHANGED <<staged, guestFile, raced>>

\* A failed pull, and a failed SFTP further down, remove what they left on the
\* node, best effort.
pull_fails(n, ok) ==
  /\ At(n, "pull")
  /\ nodeTmp' = [nodeTmp EXCEPT ![n] = IF ok THEN 0 ELSE Part(guestFile["lxc"])]
  /\ transfers' = [transfers EXCEPT ![n] = Over("error", ~ ok)]
  /\ UNCHANGED <<staged, guestFile, raced>>

(***************************************************************************)
(* SFTP writes to the file it opened, wherever that is by now: still at    *)
(* <dest>.part, at <dest> because another download renamed it, or gone.    *)
(* `open' says which.                                                      *)
(***************************************************************************)
InPart(n) == transfers[n].pc \in {"getting", "undo", "tidy", "sum", "replace"}

Moved(ts, from, to) == [m \in DOMAIN ts |-> IF ts[m].pc = "getting" /\ ts[m].open = from THEN [ts[m] EXCEPT !.open = to] ELSE ts[m]]

get_begins(n) ==
  LET data == IF transfers[n].guest = "lxc" THEN nodeTmp[n] ELSE guestFile["qemu"]
  IN  /\ At(n, "get")
      /\ staged' = [staged EXCEPT ![PlainPart] = Part(data)]
      /\ transfers' = [transfers EXCEPT ![n].pc = "getting", ![n].data = data, ![n].open = "part"]
      /\ raced' = (raced \/ \E m \in DOMAIN transfers \ {n} : InPart(m))
      /\ UNCHANGED <<nodeTmp, guestFile>>

\* Two that write to the same file leave a mixture.
get_ends(n) ==
  LET data  == transfers[n].data
      where == IF transfers[n].open = "plain" THEN Plain ELSE PlainPart
  IN  /\ At(n, "getting")
      /\ staged' = IF transfers[n].open = "gone" THEN staged
                   ELSE [staged EXCEPT ![where] = IF @ = Part(data) THEN data ELSE Part(data)]
      /\ transfers' = [transfers EXCEPT ![n].open = "none",
                          ![n].pc = IF transfers[n].guest = "lxc" THEN "tidy"
                                    ELSE IF transfers[n].verify THEN "sum" ELSE "replace"]
      /\ UNCHANGED <<nodeTmp, guestFile, raced>>

get_fails(n) ==
  /\ At(n, "getting")
  /\ transfers' = [transfers EXCEPT ![n].pc = "undo", ![n].open = "none"]
  /\ UNCHANGED <<staged, nodeTmp, guestFile, raced>>

\* The node's copy is removed first, best effort; a download from a VM has none.
undo(n, ok) ==
  /\ At(n, "undo") /\ (transfers[n].guest = "qemu" => ok)
  /\ staged' = [staged EXCEPT ![PlainPart] = 0]
  /\ nodeTmp' = [nodeTmp EXCEPT ![n] = IF ok THEN 0 ELSE @]
  /\ transfers' = [Moved(transfers, "part", "gone") EXCEPT
                      ![n] = Over("error", ~ ok)]
  /\ UNCHANGED <<guestFile, raced>>

\* sftp_remove of the node's copy, best effort.
tidy(n, ok) ==
  /\ At(n, "tidy")
  /\ nodeTmp' = [nodeTmp EXCEPT ![n] = IF ok THEN 0 ELSE @]
  /\ transfers' = [transfers EXCEPT ![n].pc = IF transfers[n].verify THEN "sum" ELSE "replace",
                                    ![n].left = ~ ok]
  /\ UNCHANGED <<staged, guestFile, raced>>

\* The local sum is taken on a thread; the part may be gone.
hash_part(n) ==
  /\ At(n, "sum")
  /\ IF staged[PlainPart] = 0 THEN Fails(n)
     ELSE transfers' = [transfers EXCEPT ![n].pc = "replace", ![n].data = staged[PlainPart]]
  /\ UNCHANGED <<staged, nodeTmp, guestFile, raced>>

\* Back on the event loop: compare, then rename, in one step.
replace(n) ==
  LET t   == transfers[n]
      bad == t.verify /\ t.sha # 0 /\ Mismatch(t.sha, t.data)
  IN  /\ At(n, "replace")
      /\ IF bad \/ staged[PlainPart] = 0
           THEN /\ staged' = [staged EXCEPT ![PlainPart] = 0]
                /\ transfers' = [Moved(transfers, "part", "gone") EXCEPT ![n] = Over("error", t.left)]
           ELSE /\ staged' = [staged EXCEPT ![Plain] = staged[PlainPart], ![PlainPart] = 0]
                /\ transfers' = [Moved(Moved(transfers, "plain", "gone"), "part", "plain") EXCEPT
                                   ![n] = IF t.sha # 0 THEN Verified(n, staged[PlainPart])
                                          ELSE Over("success", t.left)]
      /\ UNCHANGED <<nodeTmp, guestFile, raced>>

\* A download has no finally: cancelled, it leaves what it has.
download_cancelled(n) ==
  /\ transfers[n].pc \in {"look", "pull", "get", "getting", "undo", "tidy", "sum"}
  /\ transfers' = [transfers EXCEPT ![n] = Over("error", TRUE)]
  /\ UNCHANGED <<staged, nodeTmp, guestFile, raced>>

\* From a VM the same, without the node: look, get, sum, replace.
DownloadStep(n) ==
  /\ ~ At(n, "done") /\ transfers[n].op = "download"
  /\ \/ \E sum \in BOOLEAN : look_at_source(n, sum)
     \/ look_fails(n) \/ pct_pull(n) \/ get_begins(n) \/ get_ends(n) \/ get_fails(n) \/ hash_part(n)
     \/ replace(n) \/ download_cancelled(n)
     \/ \E ok \in BOOLEAN : pull_fails(n, ok) \/ undo(n, ok) \/ tidy(n, ok)

\* proxmox_delete_transfer: any file of the directory, one that is in use too.
delete_transfer(p) ==
  /\ staged[p] # 0
  /\ staged' = [staged EXCEPT ![p] = 0]
  /\ transfers' = CASE p = Plain -> Moved(transfers, "plain", "gone")
                    [] p = PlainPart -> Moved(transfers, "part", "gone")
                    [] OTHER -> transfers
  /\ UNCHANGED <<nodeTmp, guestFile, raced>>

TransferNext ==
  \/ \E g \in Guest, verify \in BOOLEAN :
       \/ proxmox_upload_link(g, verify) \/ fetch_url(g, verify) \/ upload_file(g, verify)
       \/ \E overwrite \in BOOLEAN : download_file(g, verify, overwrite)
  \/ \E n \in DOMAIN transfers : PushStep(n) \/ DownloadStep(n)
  \/ \E p \in Path : delete_transfer(p)

-----------------------------------------------------------------------------
\* A transfer that is reported as verified moved what it says: a link or a fetch
\* put exactly the bytes it received into the guest, an upload a file that was in
\* the staging directory as a whole, a download what the guest's file was when its
\* checksum was taken.  Pushes to the same file, deletions and replacements of
\* staged files in between do not change that; two downloads to the same name at
\* the same time do.
VerifiedIsTrue ==
  \A n \in DOMAIN transfers : At(n, "done") /\ transfers[n].result = "verified" =>
    CASE transfers[n].op \in {"link", "fetch"} -> transfers[n].got = n
      [] transfers[n].op = "upload"            -> transfers[n].got = transfers[n].sha
      [] transfers[n].op = "download"          -> raced \/ transfers[n].got = transfers[n].sha

\* A transfer that has ended, cancelled ones included, leaves no copy behind: no
\* file of its own in the staging directory, and none on the node unless the node
\* could not be reached to remove it.  A download that was cancelled is the
\* exception: nobody removes what it had.
NothingLeftBehind ==
  \A n \in DOMAIN transfers : transfers[n].pc = "done" =>
    /\ staged[Own(n)] = 0 /\ staged[OwnPart(n)] = 0
    /\ nodeTmp[n] # 0 => transfers[n].left
=============================================================================
