---------------------------- MODULE ClientStore ----------------------------
(***************************************************************************)
(* The client registry (class ClientStore of src/src/beaconmcp/auth.py):   *)
(* one JSON file, clients.json, that two processes keep a copy of.  The    *)
(* server looks clients up on every request, and adds and deletes the      *)
(* derived clients of connectors; the `beaconmcp auth' command creates and *)
(* revokes clients while the server is up.                                 *)
(*                                                                         *)
(* The processes share no lock.  What keeps the copies together is that    *)
(* every public method starts with _maybe_reload, which compares the       *)
(* signature of the file with the one recorded at the last read or write,  *)
(* and that _save replaces the file by renaming a temporary one over it.   *)
(* Every system call is a step here, so that the other process can run     *)
(* between any two; the temporary file has one name for everyone.          *)
(*                                                                         *)
(* In the server all these calls are made on the event loop and none of    *)
(* them awaits, so the server is one sequential process.                   *)
(***************************************************************************)
EXTENDS Naturals, FiniteSets

CONSTANTS
  Server, Cli,      \* the two processes
  Root,             \* ids of clients with a TOTP seed of their own
  Connector,        \* ids of derived clients
  NoOwner,
  MaxWrites,        \* bound on the truncations and writes of files
  MaxStarts         \* bound on the processes started

ASSUME NameAssumption ==
  /\ Server # Cli
  /\ Root \cap Connector = {}
  /\ NoOwner \notin Root \cup Connector

ASSUME BoundAssumption == MaxWrites \in Nat \ {0} /\ MaxStarts \in Nat

Proc   == {Server, Cli}
Client == Root \cup Connector

\* An entry of the file.  One with neither seed nor owner predates 2FA.
Row    == [id : Client, owner : Client \cup {NoOwner}, seed : BOOLEAN]
Legacy(r) == ~r.seed /\ r.owner = NoOwner
Kept(rows) == {r \in rows : ~Legacy(r)}
Ids(rows)  == {r.id : r \in rows}

\* What a file holds: the rows, or text that is not (or not all) JSON.
Content == [valid : BOOLEAN, rows : SUBSET Row]
Invalid == [valid |-> FALSE, rows |-> {}]
Json(rows) == [valid |-> TRUE, rows |-> rows]

Inode  == 1..4          \* the file, the temporary file, one descriptor each
NoFile == 0
NoSig  == 0

Writing == {"create", "revoke", "create_dynamic"}
Op == [kind : Writing \cup {"list", "exists", "grant", "start"},
       id : Client \cup {NoOwner}, owner : Client \cup {NoOwner}]
StartUp == [kind |-> "start", id |-> NoOwner, owner |-> NoOwner]

VARIABLES
  content,   \* what each inode holds
  mtime,     \* its signature: st_mtime_ns, st_size and st_ino in one number
  file,      \* the inode named clients.json
  tmp,       \* the inode named clients.json.tmp
  clock,     \* the last signature given out
  pc,        \* where each process is
  op,        \* the call it is making
  booting,   \* whether it is still in __init__
  clients,   \* _clients
  disk_sig,  \* _disk_sig
  seen,      \* the signature _maybe_reload read
  stamp,     \* the signature _load read
  removed,   \* whether the reload, and later the call, dropped a client
  fd,        \* the inode that the descriptor of write_text refers to
  saveFor,   \* where to go after _save: on with the reload, or with the call
  bearers,   \* clients with OAuth tokens in the server's TokenStore
  made,      \* client ids handed out
  starts,    \* how many processes were started
  ledger,    \* history: the rows that the acknowledged calls should have left
  revoked,   \* history: clients whose deletion was acknowledged
  asked,     \* history: `revoked' when the server's current call began
  spared,    \* history: bearers kept by a start that found no client at all
  overlapped \* history: whether two processes were ever writing at once

vars == <<content, mtime, file, tmp, clock, pc, op, booting, clients, disk_sig, seen,
          stamp, removed, fd, saveFor, bearers, made, starts, ledger, revoked, asked,
          spared, overlapped>>

files   == <<content, mtime, file, tmp, clock>>
process == <<pc, op, booting, clients, disk_sig, seen, stamp, removed, fd, saveFor>>
history == <<ledger, revoked, asked, spared, overlapped>>

Place == {"off", "idle", "stat", "load", "read", "reloaded", "act", "open", "write",
          "replace", "sign", "finish"}

TypeOK ==
  /\ content \in [Inode -> Content] /\ mtime \in [Inode -> 0..MaxWrites]
  /\ file \in Inode \cup {NoFile} /\ tmp \in Inode \cup {NoFile}
  /\ clock \in 0..MaxWrites
  /\ pc \in [Proc -> Place] /\ op \in [Proc -> Op] /\ booting \in [Proc -> BOOLEAN]
  /\ clients \in [Proc -> SUBSET Row]
  /\ disk_sig \in [Proc -> 0..MaxWrites] /\ seen \in [Proc -> 0..MaxWrites]
  /\ stamp \in [Proc -> 0..MaxWrites] /\ removed \in [Proc -> BOOLEAN]
  /\ fd \in [Proc -> Inode \cup {NoFile}] /\ saveFor \in [Proc -> {"reloaded", "finish"}]
  /\ bearers \subseteq Client /\ made \subseteq Client /\ starts \in 0..MaxStarts
  /\ ledger \subseteq Row /\ revoked \subseteq Client /\ asked \subseteq Client
  /\ spared \subseteq Client /\ overlapped \in BOOLEAN

-----------------------------------------------------------------------------
(* The effect of a call on the set of clients.                             *)

(* Definitions whose names end in Bug are not part of the specification:   *)
(* each is a defect the property named in PROJECT.json must detect.        *)
Added(o) == [id |-> o.id, owner |-> o.owner, seed |-> o.owner = NoOwner]

\* Revoking an owner drops its derived clients, one level of them.
CascadeBug(rows, id) == {}
Cascade(rows, id) ==
  IF \E r \in rows : r.id = id /\ r.owner = NoOwner
    THEN {r.id : r \in {x \in rows : x.owner = id}}
    ELSE {}

Effect(o, rows) ==
  CASE o.kind = "create" -> rows \cup {Added(o)}
    [] o.kind = "create_dynamic" /\ o.owner \in Ids(rows) -> rows \cup {Added(o)}
    [] o.kind = "revoke" -> {r \in rows : r.id \notin {o.id} \cup Cascade(rows, o.id)}
    [] OTHER -> rows

-----------------------------------------------------------------------------
\* A server that was never used, or one with a client and maybe a client that
\* an older build left behind.
Init ==
  \E rows \in {{}} \cup {{[id |-> r, owner |-> NoOwner, seed |-> TRUE]} : r \in Root} :
  \E old \in {{}} \cup {{[id |-> r, owner |-> NoOwner, seed |-> FALSE]} : r \in Root \ Ids(rows)} :
    /\ content = [i \in Inode |-> IF i = 1 THEN Json(rows \cup old) ELSE Invalid]
    /\ mtime = [i \in Inode |-> IF i = 1 THEN 1 ELSE NoSig]
    /\ file = IF rows \cup old = {} THEN NoFile ELSE 1
    /\ tmp = NoFile
    /\ clock = 1
    /\ pc = [p \in Proc |-> "off"]
    /\ op = [p \in Proc |-> StartUp]
    /\ booting = [p \in Proc |-> FALSE]
    /\ clients = [p \in Proc |-> {}]
    /\ disk_sig = [p \in Proc |-> NoSig]
    /\ seen = [p \in Proc |-> NoSig]
    /\ stamp = [p \in Proc |-> NoSig]
    /\ removed = [p \in Proc |-> FALSE]
    /\ fd = [p \in Proc |-> NoFile]
    /\ saveFor = [p \in Proc |-> "finish"]
    /\ bearers = {}
    /\ made = Ids(rows \cup old)
    /\ starts = 0
    /\ ledger = rows
    /\ revoked = {} /\ asked = {} /\ spared = {}
    /\ overlapped = FALSE

-----------------------------------------------------------------------------
(* Starting and calling.                                                   *)

\* p answers, raises or dies: its local variables go, and with the process its
\* copy of the clients.
Leaves(p, place) ==
  /\ pc' = [pc EXCEPT ![p] = place]
  /\ op' = [op EXCEPT ![p] = StartUp]
  /\ booting' = [booting EXCEPT ![p] = FALSE]
  /\ clients' = IF place = "off" THEN [clients EXCEPT ![p] = {}] ELSE clients
  /\ disk_sig' = IF place = "off" THEN [disk_sig EXCEPT ![p] = NoSig] ELSE disk_sig
  /\ seen' = [seen EXCEPT ![p] = NoSig]
  /\ stamp' = [stamp EXCEPT ![p] = NoSig]
  /\ removed' = [removed EXCEPT ![p] = FALSE]
  /\ fd' = [fd EXCEPT ![p] = NoFile]
  /\ saveFor' = [saveFor EXCEPT ![p] = "finish"]
  /\ asked' = IF p = Server THEN {} ELSE asked

Running(p) == pc[p] \notin {"off", "idle"}
IsWriter(p) == Running(p) /\ (booting[p] \/ op[p].kind \in Writing)

NoteOverlap(p, writes) ==
  overlapped' = (overlapped \/ (writes /\ \E q \in Proc \ {p} : IsWriter(q)))

\* ClientStore(path) in a new process: the server's start, or one command.
start(p) ==
  /\ pc[p] = "off"
  /\ starts < MaxStarts
  /\ starts' = starts + 1
  /\ \E o \in IF p = Server THEN {StartUp} ELSE
          {[kind |-> "create", id |-> c, owner |-> NoOwner] : c \in Root \ made}
            \cup {[kind |-> "revoke", id |-> c, owner |-> NoOwner] : c \in made}
            \cup {[kind |-> "list", id |-> NoOwner, owner |-> NoOwner]} :
        /\ op' = [op EXCEPT ![p] = o]
        /\ made' = IF o.kind = "create" THEN made \cup {o.id} ELSE made
  /\ pc' = [pc EXCEPT ![p] = "load"]
  /\ booting' = [booting EXCEPT ![p] = TRUE]
  /\ NoteOverlap(p, TRUE)
  /\ UNCHANGED <<files, clients, disk_sig, seen, stamp, removed, fd, saveFor, bearers,
                 ledger, revoked, asked, spared>>

\* A request reaches the server: a bearer is checked (exists), tokens are
\* granted after verify, a connector registers, or one is revoked.
Requests ==
  {[kind |-> k, id |-> c, owner |-> NoOwner] : k \in {"exists", "grant"}, c \in made}
    \cup {[kind |-> "create_dynamic", id |-> c, owner |-> w] : c \in Connector \ made, w \in made}
    \cup {[kind |-> "revoke", id |-> c, owner |-> NoOwner] : c \in made \cap Connector}

request ==
  /\ pc[Server] = "idle"
  /\ \E o \in Requests :
        /\ op' = [op EXCEPT ![Server] = o]
        /\ made' = IF o.kind = "create_dynamic" THEN made \cup {o.id} ELSE made
        /\ NoteOverlap(Server, o.kind \in Writing)
  /\ asked' = revoked
  /\ pc' = [pc EXCEPT ![Server] = "stat"]
  /\ UNCHANGED <<files, booting, clients, disk_sig, seen, stamp, removed, fd, saveFor,
                 bearers, starts, ledger, revoked, spared>>

-----------------------------------------------------------------------------
(* _maybe_reload and _load.                                                *)

stat_sigBug == IF file = NoFile THEN NoSig ELSE Cardinality(content[file].rows) + 1
stat_sig == IF file = NoFile THEN NoSig ELSE mtime[file]

\* Unchanged, or the file is gone: keep what we have.
UpToDateBug(p) == disk_sig[p] # NoSig
UpToDate(p)    == stat_sig = NoSig \/ stat_sig = disk_sig[p]

maybe_reload(p) ==
  /\ pc[p] = "stat"
  /\ seen' = [seen EXCEPT ![p] = stat_sig]
  /\ pc' = [pc EXCEPT ![p] = IF UpToDate(p) THEN "act" ELSE "load"]
  /\ UNCHANGED <<files, op, booting, clients, disk_sig, stamp, removed, fd, saveFor,
                 bearers, made, starts, history>>

\* _load takes the signature before it reads, so a change in between is
\* noticed by the next call.
load(p) ==
  /\ pc[p] = "load"
  /\ stamp' = [stamp EXCEPT ![p] = stat_sig]
  /\ IF file = NoFile
       THEN /\ disk_sig' = [disk_sig EXCEPT ![p] = NoSig]
            /\ pc' = [pc EXCEPT ![p] = "reloaded"]
       ELSE /\ pc' = [pc EXCEPT ![p] = "read"]
            /\ UNCHANGED disk_sig
  /\ removed' = [removed EXCEPT ![p] = FALSE]
  /\ UNCHANGED <<files, op, booting, clients, seen, fd, saveFor, bearers, made, starts,
                 history>>

RemovedBy(p, rows) == ~(Ids(clients[p]) \subseteq Ids(rows))

\* Rows of clients that predate 2FA are dropped, and the file saved without them.
read_rows(p) ==
  LET rows == content[file].rows
  IN  /\ pc[p] = "read"
      /\ content[file].valid
      /\ removed' = [removed EXCEPT ![p] = RemovedBy(p, Kept(rows))]
      /\ clients' = [clients EXCEPT ![p] = Kept(rows)]
      /\ disk_sig' = [disk_sig EXCEPT ![p] = stamp[p]]
      /\ saveFor' = [saveFor EXCEPT ![p] = "reloaded"]
      /\ pc' = [pc EXCEPT ![p] = IF Kept(rows) = rows THEN "reloaded" ELSE "open"]
      /\ UNCHANGED <<files, op, booting, seen, stamp, fd, bearers, made, starts, history>>

\* Not valid JSON: a process that starts gives up; one that runs keeps its set
\* and does not retry until the file changes again.
read_invalid(p) ==
  /\ pc[p] = "read"
  /\ ~content[file].valid
  /\ IF booting[p]
       THEN Leaves(p, "off")
       ELSE /\ pc' = [pc EXCEPT ![p] = "act"]
            /\ disk_sig' = [disk_sig EXCEPT ![p] = seen[p]]
            /\ UNCHANGED <<op, booting, clients, seen, stamp, removed, fd, saveFor, asked>>
  /\ UNCHANGED <<files, bearers, made, starts, ledger, revoked, spared, overlapped>>

\* The store is constructed: the server prunes the tokens of clients that went
\* while it was down, unless it found no client at all.  A reload that dropped
\* a client prunes too (on_clients_removed).
PruneDueBug(p) == booting[p] /\ clients[p] # {}
PruneDue(p)    == IF booting[p] THEN clients[p] # {} ELSE removed[p]

reloaded(p) ==
  LET boot  == p = Server /\ booting[p]
      prune == p = Server /\ PruneDue(p)
  IN  /\ pc[p] = "reloaded"
      /\ bearers' = IF prune THEN bearers \cap Ids(clients[p]) ELSE bearers
      /\ spared' = IF boot /\ ~prune THEN spared \cup bearers ELSE spared
      /\ IF boot
           THEN Leaves(p, "idle")
           ELSE /\ pc' = [pc EXCEPT ![p] = IF booting[p] THEN "stat" ELSE "act"]
                /\ booting' = [booting EXCEPT ![p] = FALSE]
                /\ UNCHANGED <<op, clients, disk_sig, seen, stamp, removed, fd, saveFor, asked>>
      /\ UNCHANGED <<files, made, starts, ledger, revoked, overlapped>>

-----------------------------------------------------------------------------
(* The body of the call, under the process's own lock, and _save.          *)

act(p) ==
  LET rows == Effect(op[p], clients[p])
  IN  /\ pc[p] = "act"
      /\ clients' = [clients EXCEPT ![p] = rows]
      /\ removed' = [removed EXCEPT ![p] = RemovedBy(p, rows)]
      /\ saveFor' = [saveFor EXCEPT ![p] = "finish"]
      /\ pc' = [pc EXCEPT ![p] = IF rows = clients[p] THEN "finish" ELSE "open"]
      /\ UNCHANGED <<files, op, booting, disk_sig, seen, stamp, fd, bearers, made, starts,
                     history>>

FreeInode == CHOOSE i \in Inode : i \notin {file, tmp} \cup {fd[p] : p \in Proc}

\* write_text opens the temporary file, and truncates it if it is there.
save_open(p) ==
  LET i == IF tmp = NoFile THEN FreeInode ELSE tmp
  IN  /\ pc[p] = "open"
      /\ clock < MaxWrites
      /\ clock' = clock + 1
      /\ tmp' = i
      /\ content' = [content EXCEPT ![i] = Invalid]
      /\ mtime' = [mtime EXCEPT ![i] = clock + 1]
      /\ fd' = [fd EXCEPT ![p] = i]
      /\ pc' = [pc EXCEPT ![p] = "write"]
      /\ UNCHANGED <<file, op, booting, clients, disk_sig, seen, stamp, removed, saveFor,
                     bearers, made, starts, history>>

\* Its text goes to the inode it opened, whatever that is called by now.  Over
\* another process's longer text it leaves the end of that text behind.
save_write(p) ==
  /\ pc[p] = "write"
  /\ clock < MaxWrites
  /\ clock' = clock + 1
  /\ \E c \in {Json(clients[p])} \cup (IF content[fd[p]].valid THEN {Invalid} ELSE {}) :
        content' = [content EXCEPT ![fd[p]] = c]
  /\ mtime' = [mtime EXCEPT ![fd[p]] = clock + 1]
  /\ fd' = [fd EXCEPT ![p] = NoFile]
  /\ pc' = [pc EXCEPT ![p] = "replace"]
  /\ UNCHANGED <<file, tmp, op, booting, clients, disk_sig, seen, stamp, removed, saveFor,
                 bearers, made, starts, history>>

save_replace(p) ==
  /\ pc[p] = "replace"
  /\ tmp # NoFile
  /\ file' = tmp
  /\ tmp' = NoFile
  /\ pc' = [pc EXCEPT ![p] = "sign"]
  /\ UNCHANGED <<content, mtime, clock, op, booting, clients, disk_sig, seen, stamp, removed,
                 fd, saveFor, bearers, made, starts, history>>

\* The other process renamed the temporary file away: FileNotFoundError.  A
\* reload swallows it; a start or a command ends; a request fails.
save_fails(p) ==
  /\ pc[p] = "replace"
  /\ tmp = NoFile
  /\ IF saveFor[p] = "reloaded" /\ ~booting[p]
       THEN /\ disk_sig' = [disk_sig EXCEPT ![p] = seen[p]]
            /\ pc' = [pc EXCEPT ![p] = "act"]
            /\ UNCHANGED <<op, booting, clients, seen, stamp, removed, fd, saveFor, asked>>
       ELSE Leaves(p, IF booting[p] \/ p = Cli THEN "off" ELSE "idle")
  /\ UNCHANGED <<files, bearers, made, starts, ledger, revoked, spared, overlapped>>

save_sign(p) ==
  /\ pc[p] = "sign"
  /\ disk_sig' = [disk_sig EXCEPT ![p] = stat_sig]
  /\ pc' = [pc EXCEPT ![p] = saveFor[p]]
  /\ UNCHANGED <<files, op, booting, clients, seen, stamp, removed, fd, saveFor, bearers,
                 made, starts, history>>

\* The answer: the command prints its result and exits, the server responds.
finish(p) ==
  LET o == op[p]
  IN  /\ pc[p] = "finish"
      /\ ledger' = Effect(o, ledger)
      /\ revoked' = IF removed[p]
                      THEN revoked \cup {o.id} \cup Cascade(ledger, o.id)
                      ELSE revoked
      /\ bearers' = IF p = Server /\ o.kind = "grant" /\ o.id \in Ids(clients[p])
                      THEN bearers \cup {o.id}
                    ELSE IF p = Server /\ removed[p] THEN bearers \ {o.id}
                    ELSE bearers
      /\ Leaves(p, IF p = Cli THEN "off" ELSE "idle")
      /\ UNCHANGED <<files, made, starts, spared, overlapped>>

\* The call's rows are in the file although it has not answered yet.
Landed(p) == pc[p] \in {"sign", "finish"} /\ saveFor[p] = "finish"

\* A process dies; what it had renamed into place stays.
kill(p) ==
  /\ pc[p] # "off"
  /\ Leaves(p, "off")
  /\ ledger' = IF Landed(p) THEN Effect(op[p], ledger) ELSE ledger
  /\ UNCHANGED <<files, bearers, made, starts, revoked, spared, overlapped>>

Next ==
  \/ request
  \/ \E p \in Proc :
       \/ start(p)
       \/ maybe_reload(p)
       \/ load(p)
       \/ read_rows(p)
       \/ read_invalid(p)
       \/ reloaded(p)
       \/ act(p)
       \/ save_open(p)
       \/ save_write(p)
       \/ save_replace(p)
       \/ save_fails(p)
       \/ save_sign(p)
       \/ finish(p)
       \/ kill(p)

Spec == Init /\ [][Next]_vars

-----------------------------------------------------------------------------
(* Properties.                                                             *)

Quiet == \A p \in Proc : ~Landed(p)

\* Acknowledged calls are durable: as long as two processes are never writing
\* at once, the file is complete and holds exactly what the acknowledged
\* creations and deletions amount to (or, for a call that has renamed its file
\* and not answered yet, that call too), wherever a process was killed before.
FileIsLedger ==
  ~overlapped /\ file # NoFile =>
    /\ content[file].valid
    /\ LET rows == Kept(content[file].rows)
       IN  \/ Quiet /\ rows = ledger
           \/ \E p \in Proc : Landed(p) /\ rows = Effect(op[p], ledger)

\* A copy that looks current is current: when the recorded signature is the
\* file's, the clients in memory are the clients in the file, so that skipping
\* the reload is right.  It rests on _load taking the signature first.
CopyIsCurrent ==
  \A p \in Proc :
    ~overlapped /\ pc[p] \in {"idle", "stat", "act"} /\ ~booting[p] /\ file # NoFile
      /\ disk_sig[p] = stat_sig => clients[p] = Kept(content[file].rows)

\* No lookup of a request that began after a deletion was acknowledged finds
\* the deleted client or one of its derived clients, and their OAuth tokens
\* are gone, but for those that a start kept because it found no client.
RevokedCutOff ==
  ~overlapped /\ pc[Server] = "finish" =>
    /\ asked \cap Ids(clients[Server]) = {}
    /\ asked \cap bearers \subseteq spared

RowSets == {clients[p] : p \in Proc} \cup {content[i].rows : i \in {file} \ {NoFile}}

\* A derived client never outlives the root client it delegates TOTP to: even
\* when a connector registers while the command deletes its owner, no copy and
\* no state of the file has the one without the other.
OwnerPresent ==
  \A rows \in RowSets : \A r \in rows : r.owner \in Root => r.owner \in Ids(rows)

\* What the class comment and docs/security.md promise: an `auth revoke' cuts the
\* client off at its next request, even while the server saves.
RevokedIsRefused ==
  pc[Server] = "finish" => asked \cap Ids(clients[Server]) = {}
=============================================================================
