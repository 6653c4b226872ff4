------------------------- MODULE ClientStoreProofs -------------------------
(***************************************************************************)
(* What is proved of the client registry, for any sets of clients and any  *)
(* number of writes and starts.                                            *)
(*                                                                         *)
(* The invariant has two parts.  Sound holds whatever the two processes    *)
(* do: types, owners present wherever derived clients are, one signature   *)
(* per write, and variables that fit the place a process is at.  Coherent  *)
(* holds until two processes write at once: at most one process is then a  *)
(* writer, so the temporary file is its own; the copy it acts on is the    *)
(* file; the file is the ledger of acknowledged calls, with the one call   *)
(* that is renamed and not acknowledged yet; and a signature recorded by   *)
(* anyone is that of a file whose rows it has.                             *)
(***************************************************************************)
EXTENDS ClientStore, TLAPS

-----------------------------------------------------------------------------
(* What a set of clients is.                                               *)

\* Root clients have no owner, derived ones do, and the owner, where it is a root
\* client, is there with its seed.
RowGood(r) == r \in Row /\ (r.id \in Root <=> r.owner = NoOwner)
Closed(rows) ==
  /\ \A r \in rows : RowGood(r)
  /\ \A r \in rows : r.owner \in Root => \E q \in rows : q.id = r.owner /\ q.seed
Current(rows) == Kept(rows) = rows

\* Every set of clients there is, in memory, in a file or in the ledger.
RowsGood ==
  /\ \A p \in Proc : Closed(clients[p]) /\ Current(clients[p])
  /\ \A i \in Inode : Closed(content[i].rows)
  /\ Closed(ledger) /\ Current(ledger)

\* What a call may ask for.
OpGood(p) ==
  /\ op[p].kind = "create" => op[p].id \in Root /\ op[p].owner = NoOwner
  /\ op[p].kind = "create_dynamic" => op[p].id \in Connector /\ op[p].owner \in Client
  /\ op[p].kind = "revoke" => op[p].id \in Client /\ (p = Server => op[p].id \in Connector)
  /\ op[p].kind \in Writing => op[p].id \in made

-----------------------------------------------------------------------------
(* The files and where the processes are.                                  *)

\* No two inodes have the same signature, and the file and the temporary file have one.
FilesGood ==
  /\ \A i, j \in Inode : i # j => mtime[i] # mtime[j] \/ mtime[i] = 0
  /\ \A i \in Inode : mtime[i] <= clock
  /\ file # NoFile => mtime[file] # 0 /\ file # tmp
  /\ tmp # NoFile => mtime[tmp] # 0

\* In _save.
Saving == {"open", "write", "replace", "sign"}

\* What the variables of a process can be where it is.
PlaceGood(p) ==
  /\ fd[p] # NoFile => pc[p] = "write"
  /\ booting[p] => /\ pc[p] \in {"load", "read", "reloaded"} \cup Saving
                   /\ pc[p] \in {"load", "read"} => clients[p] = {} /\ disk_sig[p] = NoSig
                   /\ pc[p] \in Saving => saveFor[p] = "reloaded"
  /\ pc[p] = "read" => file # NoFile
  /\ pc[p] = "finish" => saveFor[p] = "finish"
  /\ pc[p] \in Saving \cup {"finish"} /\ saveFor[p] = "finish" /\ removed[p] => op[p].kind = "revoke"
  /\ pc[p] = "off" => clients[p] = {} /\ disk_sig[p] = NoSig /\ ~ booting[p]

\* The signatures it knows were given out.
SigsPast(p) == disk_sig[p] <= clock /\ seen[p] <= clock /\ stamp[p] <= clock

-----------------------------------------------------------------------------
(* While two processes are never writing at once.                          *)

\* The clients in the file, and whether a process was called to change them.
Published == IF file = NoFile THEN {} ELSE Kept(content[file].rows)
Writes(p) == op[p].kind \in Writing

\* The file is JSON; nobody knows the temporary file by its signature; one process writes.
FileWhole == file # NoFile => content[file].valid
SigsGood  == tmp # NoFile => \A p \in Proc : mtime[tmp] \notin {disk_sig[p], seen[p], stamp[p]}
OneWriter == \A p, q \in Proc : IsWriter(p) /\ IsWriter(q) => p = q

\* What a process that saves has in the temporary file, or in the file.
SaveGood(p) ==
  /\ pc[p] \in Saving => IsWriter(p)
  /\ pc[p] = "write" => tmp # NoFile /\ fd[p] = tmp /\ ~ content[tmp].valid
  /\ pc[p] = "replace" => tmp # NoFile /\ content[tmp] = Json(clients[p])
  /\ pc[p] = "sign" => file # NoFile /\ content[file] = Json(clients[p])
  /\ pc[p] \in {"open", "write", "replace"} =>
       clients[p] = IF saveFor[p] = "finish" THEN Effect(op[p], ledger) ELSE ledger

\* How current the copy of a process is.
CopyGood(p) ==
  /\ pc[p] # "off" /\ (~ booting[p] \/ pc[p] = "reloaded") /\ file # NoFile => Current(content[file].rows)
  /\ pc[p] \notin {"off"} \cup Saving /\ file # NoFile /\ disk_sig[p] = mtime[file] => clients[p] = Published
  /\ IsWriter(p) /\ pc[p] \in {"reloaded", "act"} => clients[p] = Published
  /\ file = NoFile /\ pc[p] \notin {"open", "write", "replace"} => clients[p] = {}

\* A change that is in the file and not acknowledged yet.
Busy(p) == Landed(p) /\ Writes(p)

LedgerGood ==
  /\ \A p \in Proc : Busy(p) => Published = Effect(op[p], ledger)
  /\ (\A p \in Proc : ~ Busy(p)) => Published = ledger

-----------------------------------------------------------------------------
(* What was revoked.                                                       *)

\* Ids are handed out before they are used.
MadeGood == revoked \subseteq made /\ Ids(ledger) \subseteq made

\* Revoked clients are not in the ledger, nor about to be.
RevokedGood ==
  /\ asked \subseteq revoked /\ revoked \cap Ids(ledger) = {}
  /\ \A p \in Proc : IsWriter(p) /\ op[p].kind \in {"create", "create_dynamic"} => op[p].id \notin revoked

\* The server, between a request and its answer.
Looked == {"act", "reloaded", "finish"} \cup Saving

ServerGood ==
  ~ booting[Server] =>
    /\ pc[Server] \in Looked => asked \cap Ids(clients[Server]) = {}
    /\ pc[Server] \notin {"off", "reloaded", "finish"} \cup Saving => bearers \subseteq Ids(clients[Server]) \cup spared
    /\ pc[Server] = "reloaded" /\ ~ removed[Server] => bearers \subseteq Ids(clients[Server]) \cup spared
    /\ pc[Server] \in Saving \cup {"finish"} =>
         /\ saveFor[Server] = "finish"
         /\ removed[Server] => op[Server].id \notin asked
         /\ bearers \subseteq Ids(clients[Server]) \cup spared \cup (IF removed[Server] THEN {op[Server].id} ELSE {})

\* The part that needs one writer at a time, and the part that does not.
Coherent ==
  /\ FileWhole /\ SigsGood /\ OneWriter /\ LedgerGood
  /\ \A p \in Proc : SaveGood(p) /\ CopyGood(p)
  /\ RevokedGood /\ ServerGood

Sound ==
  /\ TypeOK /\ RowsGood /\ FilesGood /\ MadeGood
  /\ \A p \in Proc : OpGood(p) /\ PlaceGood(p) /\ SigsPast(p)

\* The inductive invariant.
ClientGood == Sound /\ (overlapped \/ Coherent)

\* What is assumed of the constants, in the form the provers use.
LEMMA Bounds ==
  /\ MaxWrites \in Nat /\ MaxWrites >= 1 /\ MaxStarts \in Nat
  /\ Server # Cli /\ Root \cap Connector = {} /\ NoOwner \notin Client
BY NameAssumption, BoundAssumption DEF Client

\* A start is a call like any other.
LEMMA StartUpIs == StartUp \in Op /\ StartUp.kind = "start"
BY DEF StartUp, Op

\* Text that is not JSON is some content, without rows.
LEMMA InvalidIs == Invalid \in Content /\ ~ Invalid.valid /\ Invalid.rows = {}
BY DEF Invalid, Content

\* What the JSON text of a set of rows holds.
LEMMA JsonIs ==
  ASSUME NEW rows \in SUBSET Row
  PROVE  Json(rows) \in Content /\ Json(rows).valid /\ Json(rows).rows = rows
BY DEF Json, Content

\* What a file may hold.
LEMMA ContentIs ==
  ASSUME NEW c \in Content
  PROVE  c.valid \in BOOLEAN /\ c.rows \subseteq Row
BY DEF Content

\* The row that a creation adds.
LEMMA AddedIs ==
  ASSUME NEW o \in Op, o.id \in Client
  PROVE  Added(o) \in Row /\ Added(o).id = o.id /\ Added(o).owner = o.owner /\ Added(o).seed = (o.owner = NoOwner)
BY DEF Added, Row, Op

\* What a call makes of the clients, by the kind of the call.
LEMMA EffectIs ==
  ASSUME NEW o, NEW rows
  PROVE  /\ o.kind = "create" => Effect(o, rows) = rows \cup {Added(o)}
         /\ o.kind = "create_dynamic" => Effect(o, rows) \in {rows, rows \cup {Added(o)}}
         /\ o.kind = "create_dynamic" /\ o.owner \notin Ids(rows) => Effect(o, rows) = rows
         /\ o.kind = "revoke" => Effect(o, rows) = {r \in rows : r.id \notin {o.id} \cup Cascade(rows, o.id)}
         /\ o.kind \notin Writing => Effect(o, rows) = rows
BY DEF Effect, Writing

\* A call makes rows of rows.
LEMMA EffectRows ==
  ASSUME NEW o \in Op, NEW rows \in SUBSET Row, o.kind \in {"create", "create_dynamic"} => o.id \in Client
  PROVE  Effect(o, rows) \in SUBSET Row
<1>1. CASE o.kind \in {"create", "create_dynamic"}
  BY <1>1, AddedIs, EffectIs
<1>2. CASE o.kind = "revoke"
  BY <1>2, EffectIs
<1>3. CASE o.kind \notin Writing
  BY <1>3, EffectIs
<1> QED BY <1>1, <1>2, <1>3 DEF Writing

\* There is a free inode when nobody has the temporary file.
LEMMA FreeIs ==
  ASSUME TypeOK, NEW p \in Proc, fd[p] = NoFile, tmp = NoFile
  PROVE  FreeInode \in Inode /\ FreeInode # file /\ \A q \in Proc : FreeInode # fd[q]
<1>1. PICK q \in Proc : Proc = {p, q}
  BY DEF Proc
<1>2. \E i \in Inode : i # file /\ i # fd[q] /\ i # NoFile
  BY DEF Inode, NoFile
<1>3. {fd[r] : r \in Proc} = {NoFile, fd[q]}
  BY <1>1
<1>4. \E i \in Inode : i \notin {file, tmp} \cup {fd[r] : r \in Proc}
  BY <1>2, <1>3
<1>5. FreeInode \in Inode /\ FreeInode \notin {file, tmp} \cup {fd[r] : r \in Proc}
  BY <1>4 DEF FreeInode
<1> QED BY <1>5

\* The local variables of a process that leaves.
LEMMA LeavesTypes ==
  ASSUME TypeOK, NEW p \in Proc, NEW place \in {"off", "idle"}, Leaves(p, place)
  PROVE  /\ pc' \in [Proc -> Place] /\ op' \in [Proc -> Op] /\ booting' \in [Proc -> BOOLEAN]
         /\ clients' \in [Proc -> SUBSET Row]
         /\ disk_sig' \in [Proc -> 0..MaxWrites] /\ seen' \in [Proc -> 0..MaxWrites]
         /\ stamp' \in [Proc -> 0..MaxWrites] /\ removed' \in [Proc -> BOOLEAN]
         /\ fd' \in [Proc -> Inode \cup {NoFile}] /\ saveFor' \in [Proc -> {"reloaded", "finish"}]
         /\ asked' \subseteq Client
<1>1. 0 \in 0..MaxWrites /\ StartUp \in Op
  BY Bounds, StartUpIs
<1>2. pc' \in [Proc -> Place] /\ op' \in [Proc -> Op] /\ booting' \in [Proc -> BOOLEAN]
  BY <1>1 DEF Leaves, TypeOK, Place
<1>3. clients' \in [Proc -> SUBSET Row] /\ disk_sig' \in [Proc -> 0..MaxWrites]
  BY <1>1 DEF Leaves, TypeOK, NoSig
<1>4. seen' \in [Proc -> 0..MaxWrites] /\ stamp' \in [Proc -> 0..MaxWrites] /\ removed' \in [Proc -> BOOLEAN]
  BY <1>1 DEF Leaves, TypeOK, NoSig
<1>5. fd' \in [Proc -> Inode \cup {NoFile}] /\ saveFor' \in [Proc -> {"reloaded", "finish"}] /\ asked' \subseteq Client
  BY DEF Leaves, TypeOK
<1> QED BY <1>2, <1>3, <1>4, <1>5

\* The signature that stat returns, and when there is none.
LEMMA StatIs ==
  ASSUME TypeOK
  PROVE  stat_sig \in 0..MaxWrites /\ (file = NoFile => stat_sig = 0) /\ (file # NoFile => stat_sig = mtime[file] /\ file \in Inode)
BY Bounds DEF stat_sig, TypeOK, NoSig

-----------------------------------------------------------------------------
(* Types.                                                                  *)

\* What a process is started for.
LEMMA StartIs ==
  ASSUME TypeOK, NEW p \in Proc, start(p)
  PROVE  \E o \in Op :
           /\ op' = [op EXCEPT ![p] = o]
           /\ \/ o.kind \in {"start", "list"} /\ made' = made
              \/ p # Server /\ o.kind = "create" /\ o.id \in Root \ made /\ o.owner = NoOwner /\ made' = made \cup {o.id}
              \/ p # Server /\ o.kind = "revoke" /\ o.id \in made /\ made' = made
<1>1. PICK o : /\ o \in IF p = Server THEN {StartUp} ELSE
                    {[kind |-> "create", id |-> c, owner |-> NoOwner] : c \in Root \ made}
                      \cup {[kind |-> "revoke", id |-> c, owner |-> NoOwner] : c \in made}
                      \cup {[kind |-> "list", id |-> NoOwner, owner |-> NoOwner]}
               /\ op' = [op EXCEPT ![p] = o]
               /\ made' = IF o.kind = "create" THEN made \cup {o.id} ELSE made
  BY DEF start
<1>2. o \in Op
  BY <1>1, StartUpIs DEF Op, Writing, TypeOK, Client
<1>3. \/ o.kind \in {"start", "list"} /\ made' = made
      \/ p # Server /\ o.kind = "create" /\ o.id \in Root \ made /\ o.owner = NoOwner /\ made' = made \cup {o.id}
      \/ p # Server /\ o.kind = "revoke" /\ o.id \in made /\ made' = made
  BY <1>1, StartUpIs
<1> QED BY <1>1, <1>2, <1>3

\* What the server is asked for.
LEMMA RequestIs ==
  ASSUME TypeOK, request
  PROVE  \E o \in Op :
           /\ op' = [op EXCEPT ![Server] = o]
           /\ overlapped' = (overlapped \/ (o.kind \in Writing /\ \E q \in Proc \ {Server} : IsWriter(q)))
           /\ \/ o.kind \in {"exists", "grant"} /\ made' = made
              \/ o.kind = "create_dynamic" /\ o.id \in Connector \ made /\ o.owner \in Client /\ made' = made \cup {o.id}
              \/ o.kind = "revoke" /\ o.id \in made /\ o.id \in Connector /\ made' = made
<1>1. PICK o \in Requests :
               /\ op' = [op EXCEPT ![Server] = o]
               /\ made' = IF o.kind = "create_dynamic" THEN made \cup {o.id} ELSE made
               /\ overlapped' = (overlapped \/ (o.kind \in Writing /\ \E q \in Proc \ {Server} : IsWriter(q)))
  BY Zenon DEF request, NoteOverlap
<1>2. o \in Op
  BY <1>1 DEF Requests, Op, Writing, TypeOK, Client
<1>3. \/ o.kind \in {"exists", "grant"} /\ made' = made
      \/ o.kind = "create_dynamic" /\ o.id \in Connector \ made /\ o.owner \in Client /\ made' = made \cup {o.id}
      \/ o.kind = "revoke" /\ o.id \in made /\ o.id \in Connector /\ made' = made
  BY <1>1 DEF Requests, TypeOK
<1> QED BY <1>1, <1>2, <1>3

\* The state has its type after a call begins,
LEMMA CallTypes ==
  ASSUME TypeOK
  PROVE  /\ \A p \in Proc : start(p) => TypeOK'
         /\ request => TypeOK'
<1>1. ASSUME NEW p \in Proc, start(p)
      PROVE  TypeOK'
  <2>1. op' \in [Proc -> Op] /\ made' \subseteq Client
    BY <1>1, StartIs DEF TypeOK, Client
  <2>2. pc' \in [Proc -> Place] /\ booting' \in [Proc -> BOOLEAN] /\ starts' \in 0..MaxStarts
    BY <1>1, Bounds DEF start, TypeOK, Place
  <2>3. overlapped' \in BOOLEAN
    BY <1>1 DEF start, NoteOverlap, TypeOK
  <2> QED BY <1>1, <2>1, <2>2, <2>3 DEF start, TypeOK, files
<1>2. ASSUME request
      PROVE  TypeOK'
  <2>1. op' \in [Proc -> Op] /\ made' \subseteq Client
    BY <1>2, RequestIs DEF TypeOK, Client
  <2>2. pc' \in [Proc -> Place] /\ asked' \subseteq Client
    BY <1>2 DEF request, TypeOK, Place
  <2>3. overlapped' \in BOOLEAN
    BY <1>2, RequestIs
  <2> QED BY <1>2, <2>1, <2>2, <2>3 DEF request, TypeOK, files
<1> QED BY <1>1, <1>2

\* after a step of a reload,
LEMMA ReloadTypes ==
  ASSUME TypeOK, NEW p \in Proc, pc[p] = "read" => file # NoFile
  PROVE  /\ maybe_reload(p) => TypeOK'
         /\ load(p) => TypeOK'
         /\ read_rows(p) => TypeOK'
         /\ read_invalid(p) => TypeOK'
         /\ reloaded(p) => TypeOK'
<1>1. ASSUME maybe_reload(p)
      PROVE  TypeOK'
  <2>1. seen' \in [Proc -> 0..MaxWrites] /\ pc' \in [Proc -> Place]
    BY <1>1, StatIs DEF maybe_reload, TypeOK, Place
  <2> QED BY <1>1, <2>1 DEF maybe_reload, TypeOK, files, history
<1>2. ASSUME load(p)
      PROVE  TypeOK'
  <2>1. stamp' \in [Proc -> 0..MaxWrites] /\ disk_sig' \in [Proc -> 0..MaxWrites]
    BY <1>2, StatIs, Bounds DEF load, TypeOK, NoSig
  <2>2. pc' \in [Proc -> Place] /\ removed' \in [Proc -> BOOLEAN]
    BY <1>2 DEF load, TypeOK, Place
  <2> QED BY <1>2, <2>1, <2>2 DEF load, TypeOK, files, history
<1>3. ASSUME read_rows(p)
      PROVE  TypeOK'
  <2>1. PICK rows : rows = content[file].rows
    OBVIOUS
  <2>2. Kept(rows) \in SUBSET Row
    <3>1. content[file] \in Content
      BY <1>3 DEF read_rows, TypeOK
    <3> QED BY <2>1, <3>1, ContentIs DEF Kept
  <2>3. clients' \in [Proc -> SUBSET Row] /\ disk_sig' \in [Proc -> 0..MaxWrites] /\ saveFor' \in [Proc -> {"reloaded", "finish"}]
    BY <1>3, <2>1, <2>2 DEF read_rows, TypeOK
  <2>4. pc' \in [Proc -> Place] /\ removed' \in [Proc -> BOOLEAN]
    BY <1>3 DEF read_rows, TypeOK, Place, RemovedBy
  <2> QED BY <1>3, <2>3, <2>4 DEF read_rows, TypeOK, files, history
<1>4. ASSUME read_invalid(p)
      PROVE  TypeOK'
  <2>1. CASE booting[p]
    <3>1. Leaves(p, "off")
      BY <1>4, <2>1 DEF read_invalid
    <3> QED BY <1>4, <3>1, LeavesTypes DEF read_invalid, TypeOK, files
  <2>2. CASE ~ booting[p]
    <3>1. pc' \in [Proc -> Place] /\ disk_sig' \in [Proc -> 0..MaxWrites]
      BY <1>4, <2>2 DEF read_invalid, TypeOK, Place
    <3> QED BY <1>4, <2>2, <3>1 DEF read_invalid, TypeOK, files
  <2> QED BY <2>1, <2>2
<1>5. ASSUME reloaded(p)
      PROVE  TypeOK'
  <2>1. bearers' \subseteq Client /\ spared' \subseteq Client
    BY <1>5 DEF reloaded, TypeOK
  <2>2. CASE p = Server /\ booting[p]
    <3>1. Leaves(p, "idle")
      BY <1>5, <2>2 DEF reloaded
    <3> QED BY <1>5, <2>1, <3>1, LeavesTypes DEF reloaded, TypeOK, files
  <2>3. CASE ~ (p = Server /\ booting[p])
    <3>1. pc' \in [Proc -> Place] /\ booting' \in [Proc -> BOOLEAN]
      BY <1>5, <2>3 DEF reloaded, TypeOK, Place
    <3> QED BY <1>5, <2>1, <2>3, <3>1 DEF reloaded, TypeOK, files
  <2> QED BY <2>2, <2>3
<1> QED BY <1>1, <1>2, <1>3, <1>4, <1>5

\* after the call itself and the steps of the save,
LEMMA SaveTypes ==
  ASSUME TypeOK, NEW p \in Proc, OpGood(p), fd[p] # NoFile => pc[p] = "write"
  PROVE  /\ act(p) => TypeOK'
         /\ save_open(p) => TypeOK'
         /\ save_write(p) => TypeOK'
         /\ save_replace(p) => TypeOK'
         /\ save_fails(p) => TypeOK'
         /\ save_sign(p) => TypeOK'
<1>1. ASSUME act(p)
      PROVE  TypeOK'
  <2>1. PICK rows : rows = Effect(op[p], clients[p])
    OBVIOUS
  <2>2. rows \in SUBSET Row
    BY <2>1, EffectRows DEF TypeOK, OpGood, Client
  <2>3. clients' \in [Proc -> SUBSET Row] /\ saveFor' \in [Proc -> {"reloaded", "finish"}]
    BY <1>1, <2>1, <2>2 DEF act, TypeOK
  <2>4. pc' \in [Proc -> Place] /\ removed' \in [Proc -> BOOLEAN]
    BY <1>1 DEF act, TypeOK, Place, RemovedBy
  <2> QED BY <1>1, <2>3, <2>4 DEF act, TypeOK, files, history
<1>2. ASSUME save_open(p)
      PROVE  TypeOK'
  <2>1. PICK i : i = IF tmp = NoFile THEN FreeInode ELSE tmp
    OBVIOUS
  <2>2. i \in Inode
    BY <1>2, <2>1, FreeIs DEF save_open, TypeOK
  <2>3. clock' \in 0..MaxWrites
    BY <1>2, Bounds DEF save_open, TypeOK
  <2>4. mtime' \in [Inode -> 0..MaxWrites]
    BY <1>2, <2>1, <2>2, <2>3 DEF save_open, TypeOK
  <2>5. content' \in [Inode -> Content]
    BY <1>2, <2>1, <2>2, InvalidIs DEF save_open, TypeOK
  <2>6. tmp' \in Inode \cup {NoFile} /\ fd' \in [Proc -> Inode \cup {NoFile}] /\ pc' \in [Proc -> Place]
    BY <1>2, <2>1, <2>2 DEF save_open, TypeOK, Place
  <2> QED BY <1>2, <2>3, <2>4, <2>5, <2>6 DEF save_open, TypeOK, history
<1>3. ASSUME save_write(p)
      PROVE  TypeOK'
  <2>1. clock' \in 0..MaxWrites
    BY <1>3, Bounds DEF save_write, TypeOK
  <2>2. mtime' \in [Inode -> 0..MaxWrites]
    BY <1>3, <2>1 DEF save_write, TypeOK
  <2>3. PICK c : c \in {Json(clients[p]), Invalid} /\ content' = [content EXCEPT ![fd[p]] = c]
    BY <1>3 DEF save_write
  <2>4. c \in Content
    <3>1. clients[p] \in SUBSET Row
      BY DEF TypeOK
    <3> QED BY <2>3, <3>1, InvalidIs, JsonIs
  <2>5. content' \in [Inode -> Content]
    BY <2>3, <2>4 DEF TypeOK
  <2>6. fd' \in [Proc -> Inode \cup {NoFile}] /\ pc' \in [Proc -> Place]
    BY <1>3 DEF save_write, TypeOK, Place
  <2> QED BY <1>3, <2>1, <2>2, <2>5, <2>6 DEF save_write, TypeOK, history
<1>4. ASSUME save_replace(p)
      PROVE  TypeOK'
  <2>1. file' \in Inode \cup {NoFile} /\ tmp' \in Inode \cup {NoFile} /\ pc' \in [Proc -> Place]
    BY <1>4 DEF save_replace, TypeOK, Place
  <2> QED BY <1>4, <2>1 DEF save_replace, TypeOK, history
<1>5. ASSUME save_fails(p)
      PROVE  TypeOK'
  <2>1. CASE saveFor[p] = "reloaded" /\ ~ booting[p]
    <3>1. pc' \in [Proc -> Place] /\ disk_sig' \in [Proc -> 0..MaxWrites]
      BY <1>5, <2>1 DEF save_fails, TypeOK, Place
    <3> QED BY <1>5, <2>1, <3>1 DEF save_fails, TypeOK, files
  <2>2. CASE ~ (saveFor[p] = "reloaded" /\ ~ booting[p])
    <3>1. PICK place \in {"off", "idle"} : Leaves(p, place)
      BY <1>5, <2>2 DEF save_fails
    <3> QED BY <1>5, <3>1, LeavesTypes DEF save_fails, TypeOK, files
  <2> QED BY <2>1, <2>2
<1>6. ASSUME save_sign(p)
      PROVE  TypeOK'
  <2>1. disk_sig' \in [Proc -> 0..MaxWrites] /\ pc' \in [Proc -> Place]
    BY <1>6, StatIs DEF save_sign, TypeOK, Place
  <2> QED BY <1>6, <2>1 DEF save_sign, TypeOK, files, history
<1> QED BY <1>1, <1>2, <1>3, <1>4, <1>5, <1>6

\* and after the answer and the end of a process.
LEMMA EndTypes ==
  ASSUME TypeOK, NEW p \in Proc, OpGood(p),
         pc[p] = "finish" => saveFor[p] = "finish",
         pc[p] = "finish" /\ removed[p] => op[p].kind = "revoke"
  PROVE  /\ finish(p) => TypeOK'
         /\ kill(p) => TypeOK'
<1>0. Effect(op[p], ledger) \in SUBSET Row
  BY EffectRows DEF TypeOK, OpGood, Client
<1>1. ASSUME finish(p)
      PROVE  TypeOK'
  <2>1. PICK o : o = op[p]
    OBVIOUS
  <2>2. PICK place \in {"off", "idle"} : Leaves(p, place)
    BY <1>1 DEF finish
  <2>3. ledger' \subseteq Row
    BY <1>0, <1>1 DEF finish
  <2>4. Cascade(ledger, o.id) \subseteq Client
    BY DEF Cascade, TypeOK, Row
  <2>5. revoked' \subseteq Client
    BY <1>1, <2>1, <2>4 DEF finish, TypeOK, OpGood
  <2>6. bearers' \subseteq Client
    <3>1. Ids(clients[p]) \subseteq Client
      BY DEF Ids, TypeOK, Row
    <3> QED BY <1>1, <2>1, <3>1 DEF finish, TypeOK
  <2> QED BY <1>1, <2>2, <2>3, <2>5, <2>6, LeavesTypes DEF finish, TypeOK, files
<1>2. ASSUME kill(p)
      PROVE  TypeOK'
  <2>1. ledger' \subseteq Row
    BY <1>0, <1>2 DEF kill, TypeOK
  <2>2. Leaves(p, "off")
    BY <1>2 DEF kill
  <2> QED BY <1>2, <2>1, <2>2, LeavesTypes DEF kill, TypeOK, files
<1> QED BY <1>1, <1>2

-----------------------------------------------------------------------------
(* Owners.                                                                 *)

\* Dropping the clients that predate 2FA drops no owner.
LEMMA KeptIs ==
  ASSUME NEW rows, Closed(rows)
  PROVE  Closed(Kept(rows)) /\ Current(Kept(rows)) /\ Kept(rows) \subseteq rows
<1>1. Kept(rows) \subseteq rows /\ Kept(Kept(rows)) = Kept(rows)
  BY DEF Kept
<1>2. \A r \in Kept(rows) : RowGood(r)
  BY <1>1 DEF Closed
<1>3. ASSUME NEW r \in Kept(rows), r.owner \in Root
      PROVE  \E q \in Kept(rows) : q.id = r.owner /\ q.seed
  <2>1. PICK q \in rows : q.id = r.owner /\ q.seed
    BY <1>1, <1>3 DEF Closed
  <2>2. q \in Kept(rows)
    BY <2>1 DEF Kept, Legacy
  <2> QED BY <2>1, <2>2
<1> QED BY <1>1, <1>2, <1>3 DEF Closed, Current

\* No clients at all are in order.
LEMMA NoneIsClosed == Closed({}) /\ Current({})
BY DEF Closed, Current, Kept

\* A root client that is not a leftover has its seed.
LEMMA RootHasSeed ==
  ASSUME NEW rows, Closed(rows), Current(rows), NEW r \in rows, r.owner = NoOwner
  PROVE  r.seed
BY DEF Current, Kept, Legacy

\* A call keeps owners with what they own.
LEMMA EffectClosed ==
  ASSUME NEW o \in Op, NEW rows \in SUBSET Row, Closed(rows), Current(rows),
         o.kind = "create" => o.id \in Root /\ o.owner = NoOwner,
         o.kind = "create_dynamic" => o.id \in Connector /\ o.owner \in Client,
         o.kind = "revoke" => o.id \in Client
  PROVE  Closed(Effect(o, rows)) /\ Current(Effect(o, rows))
<1>0. NoOwner \notin Client /\ Root \cap Connector = {} /\ Root \subseteq Client /\ Connector \subseteq Client
  BY Bounds DEF Client
<1>1. CASE o.kind \in {"create", "create_dynamic"} /\ Effect(o, rows) = rows \cup {Added(o)}
  <2>1. PICK a : a = Added(o)
    OBVIOUS
  <2>2. a \in Row /\ a.id = o.id /\ a.owner = o.owner /\ a.seed = (o.owner = NoOwner)
    BY <1>0, <1>1, <2>1, AddedIs
  <2>3. RowGood(a) /\ ~ Legacy(a)
    BY <1>0, <1>1, <2>2 DEF RowGood, Legacy
  <2>4. Current(rows \cup {a})
    BY <2>3 DEF Current, Kept
  <2>5. a.owner \in Root => \E q \in rows : q.id = a.owner /\ q.seed
    <3>1. SUFFICES ASSUME a.owner \in Root
                   PROVE  \E q \in rows : q.id = a.owner /\ q.seed
      OBVIOUS
    <3>2. o.kind = "create_dynamic"
      BY <1>0, <1>1, <2>2, <3>1
    <3>3. o.owner \in Ids(rows) \/ rows \cup {a} = rows
      BY <1>1, <2>1, <3>2, EffectIs
    <3>4. CASE o.owner \in Ids(rows)
      <4>1. PICK q \in rows : q.id = o.owner
        BY <3>4 DEF Ids
      <4>2. q.owner = NoOwner
        BY <2>2, <3>1, <4>1 DEF Closed, RowGood
      <4> QED BY <2>2, <4>1, <4>2, RootHasSeed
    <3>5. CASE rows \cup {a} = rows
      BY <3>1, <3>5 DEF Closed
    <3> QED BY <3>3, <3>4, <3>5
  <2>6. Closed(rows \cup {a})
    BY <2>3, <2>5 DEF Closed
  <2> QED BY <1>1, <2>1, <2>4, <2>6
<1>2. CASE o.kind = "revoke"
  <2>1. PICK gone : gone = Cascade(rows, o.id)
    OBVIOUS
  <2>2. PICK rest : rest = {r \in rows : r.id \notin {o.id} \cup gone}
    OBVIOUS
  <2>3. Effect(o, rows) = rest
    BY <1>2, <2>1, <2>2, EffectIs
  <2>4. \A r \in rest : RowGood(r) /\ ~ Legacy(r)
    BY <2>2 DEF Closed, Current, Kept
  <2>5. Current(rest)
    BY <2>4 DEF Current, Kept
  <2>6. ASSUME NEW r \in rest, r.owner \in Root
        PROVE  \E q \in rest : q.id = r.owner /\ q.seed
    <3>1. PICK q \in rows : q.id = r.owner /\ q.seed
      BY <2>2, <2>6 DEF Closed
    <3>2. q.owner = NoOwner
      BY <2>6, <3>1 DEF Closed, RowGood
    <3>3. q.id # o.id
      <4>1. SUFFICES ASSUME q.id = o.id
                     PROVE  FALSE
        OBVIOUS
      <4>2. gone = {x.id : x \in {y \in rows : y.owner = o.id}}
        BY <2>1, <3>2, <4>1 DEF Cascade
      <4>3. r.id \in gone
        BY <2>2, <3>1, <4>1, <4>2
      <4> QED BY <2>2, <4>3
    <3>4. q.id \notin gone
      <4>1. SUFFICES ASSUME q.id \in gone
                     PROVE  FALSE
        OBVIOUS
      <4>2. PICK x \in rows : x.id = q.id /\ x.owner = o.id
        BY <2>1, <4>1 DEF Cascade
      <4>3. x.owner = NoOwner
        BY <2>6, <3>1, <4>2 DEF Closed, RowGood
      <4> QED BY <1>0, <1>2, <4>2, <4>3
    <3> QED BY <2>2, <3>1, <3>3, <3>4
  <2>7. Closed(rest)
    BY <2>4, <2>6 DEF Closed
  <2> QED BY <2>3, <2>5, <2>7
<1>3. CASE Effect(o, rows) = rows
  BY <1>3
<1> QED BY <1>1, <1>2, <1>3, EffectIs DEF Writing

\* The same for the call that a process is making.
LEMMA EffectOfCall ==
  ASSUME TypeOK, NEW p \in Proc, OpGood(p), NEW rows \in SUBSET Row, Closed(rows), Current(rows)
  PROVE  Closed(Effect(op[p], rows)) /\ Current(Effect(op[p], rows))
<1>1. PICK o \in Op : o = op[p]
  BY DEF TypeOK
<1> QED BY <1>1, EffectClosed DEF OpGood

\* The sets of clients in memory, in the files and in the ledger.
LEMMA RowsStep ==
  ASSUME TypeOK, RowsGood, \A p \in Proc : OpGood(p) /\ PlaceGood(p), Next
  PROVE  RowsGood'
<1>0. /\ \A p \in Proc : clients[p] \in SUBSET Row /\ Closed(clients[p]) /\ Current(clients[p])
      /\ \A i \in Inode : Closed(content[i].rows)
      /\ ledger \in SUBSET Row /\ Closed(ledger) /\ Current(ledger)
  BY DEF RowsGood, TypeOK
<1>1. ASSUME NEW p \in Proc, NEW rows, Closed(rows), Current(rows),
             clients' = [clients EXCEPT ![p] = rows], UNCHANGED <<content, ledger>>
      PROVE  RowsGood'
  <2>1. \A q \in Proc : clients'[q] \in {clients[q], rows}
    BY <1>1 DEF TypeOK
  <2> QED BY <1>0, <1>1, <2>1 DEF RowsGood
<1>2. ASSUME NEW i \in Inode, NEW c, Closed(c.rows),
             content' = [content EXCEPT ![i] = c], UNCHANGED <<clients, ledger>>
      PROVE  RowsGood'
  <2>1. \A j \in Inode : content'[j] \in {content[j], c}
    BY <1>2 DEF TypeOK
  <2> QED BY <1>0, <1>2, <2>1 DEF RowsGood
<1>3. ASSUME UNCHANGED <<clients, content, ledger>>
      PROVE  RowsGood'
  BY <1>0, <1>3 DEF RowsGood
<1>4. ASSUME NEW p \in Proc, NEW place, Leaves(p, place), UNCHANGED content, ledger' \in {ledger, Effect(op[p], ledger)}
      PROVE  RowsGood'
  <2>1. \A q \in Proc : clients'[q] \in {clients[q], {}}
    BY <1>4 DEF Leaves, TypeOK
  <2>2. Closed(ledger') /\ Current(ledger')
    BY <1>0, <1>4, EffectOfCall
  <2> QED BY <1>0, <1>4, <2>1, <2>2, NoneIsClosed DEF RowsGood
<1>5. ASSUME NEW p \in Proc, read_rows(p)
      PROVE  RowsGood'
  <2>1. PICK rows : rows = Kept(content[file].rows)
    OBVIOUS
  <2>2. file \in Inode
    BY <1>5 DEF read_rows, PlaceGood, TypeOK
  <2>3. Closed(rows) /\ Current(rows)
    BY <1>0, <2>1, <2>2, KeptIs
  <2>4. clients' = [clients EXCEPT ![p] = rows] /\ UNCHANGED <<content, ledger>>
    BY <1>5, <2>1 DEF read_rows, files, history
  <2> QED BY <1>1, <2>3, <2>4
<1>6. ASSUME NEW p \in Proc, act(p)
      PROVE  RowsGood'
  <2>1. PICK rows : rows = Effect(op[p], clients[p])
    OBVIOUS
  <2>2. Closed(rows) /\ Current(rows)
    BY <1>0, <2>1, EffectOfCall
  <2>3. clients' = [clients EXCEPT ![p] = rows] /\ UNCHANGED <<content, ledger>>
    BY <1>6, <2>1 DEF act, files, history
  <2> QED BY <1>1, <2>2, <2>3
<1>7. ASSUME NEW p \in Proc, save_open(p)
      PROVE  RowsGood'
  <2>1. PICK i : i = IF tmp = NoFile THEN FreeInode ELSE tmp
    OBVIOUS
  <2>2. fd[p] = NoFile
    BY <1>7 DEF save_open, PlaceGood
  <2>3. i \in Inode
    BY <2>1, <2>2, FreeIs DEF TypeOK
  <2>4. content' = [content EXCEPT ![i] = Invalid] /\ UNCHANGED <<clients, ledger>>
    BY <1>7, <2>1 DEF save_open, history
  <2> QED BY <1>2, <2>3, <2>4, InvalidIs, NoneIsClosed
<1>8. ASSUME NEW p \in Proc, save_write(p)
      PROVE  RowsGood'
  <2>1. PICK c : c \in {Json(clients[p]), Invalid} /\ content' = [content EXCEPT ![fd[p]] = c]
    BY <1>8 DEF save_write
  <2>2. Closed(c.rows)
    BY <1>0, <2>1, JsonIs, InvalidIs, NoneIsClosed
  <2>3. UNCHANGED <<clients, ledger>>
    BY <1>8 DEF save_write, history
  <2>4. CASE fd[p] \in Inode
    BY <1>2, <2>1, <2>2, <2>3, <2>4
  <2>5. CASE fd[p] \notin Inode
    <3>1. content' = content
      BY <2>1, <2>5 DEF TypeOK
    <3> QED BY <1>3, <2>3, <3>1
  <2> QED BY <2>4, <2>5
<1>9. ASSUME NEW p \in Proc, start(p) \/ maybe_reload(p) \/ load(p) \/ save_replace(p) \/ save_sign(p)
      PROVE  RowsGood'
  BY <1>3, <1>9 DEF start, maybe_reload, load, save_replace, save_sign, files, history
<1>10. ASSUME request
       PROVE  RowsGood'
  BY <1>3, <1>10 DEF request, files
<1>11. ASSUME NEW p \in Proc, read_invalid(p) \/ reloaded(p) \/ save_fails(p)
       PROVE  RowsGood'
  <2>1. UNCHANGED <<content, ledger>> /\ (UNCHANGED clients \/ \E place : Leaves(p, place))
    BY <1>11 DEF read_invalid, reloaded, save_fails, files
  <2> QED BY <1>3, <1>4, <2>1
<1>12. ASSUME NEW p \in Proc, finish(p) \/ kill(p)
       PROVE  RowsGood'
  <2>1. UNCHANGED content /\ ledger' \in {ledger, Effect(op[p], ledger)} /\ \E place : Leaves(p, place)
    BY <1>12 DEF finish, kill, files
  <2> QED BY <1>4, <2>1
<1> QED BY <1>5, <1>6, <1>7, <1>8, <1>9, <1>10, <1>11, <1>12 DEF Next

-----------------------------------------------------------------------------
(* Files, calls and places.                                                *)

\* A process that leaves has no local variables.
LEMMA LeavesIs ==
  ASSUME TypeOK, NEW p \in Proc, NEW place, Leaves(p, place)
  PROVE  /\ pc'[p] = place /\ op'[p] = StartUp /\ booting'[p] = FALSE
         /\ seen'[p] = NoSig /\ stamp'[p] = NoSig /\ removed'[p] = FALSE
         /\ fd'[p] = NoFile /\ saveFor'[p] = "finish"
         /\ clients'[p] = IF place = "off" THEN {} ELSE clients[p]
         /\ disk_sig'[p] = IF place = "off" THEN NoSig ELSE disk_sig[p]
         /\ asked' = IF p = Server THEN {} ELSE asked
         /\ \A q \in Proc : q # p =>
              /\ pc'[q] = pc[q] /\ op'[q] = op[q] /\ booting'[q] = booting[q]
              /\ seen'[q] = seen[q] /\ stamp'[q] = stamp[q] /\ removed'[q] = removed[q]
              /\ fd'[q] = fd[q] /\ saveFor'[q] = saveFor[q]
              /\ clients'[q] = clients[q] /\ disk_sig'[q] = disk_sig[q]
BY DEF Leaves, TypeOK

\* The files in a step that writes to none.
LEMMA FilesStep ==
  ASSUME TypeOK, FilesGood, \A p \in Proc : PlaceGood(p), Next
  PROVE  FilesGood' /\ clock <= clock' /\ (file # NoFile => file' # NoFile)
<1>0. clock \in Nat /\ \A i \in Inode : mtime[i] \in Nat
  BY Bounds DEF TypeOK
<1>1. ASSUME UNCHANGED files
      PROVE  FilesGood' /\ clock <= clock' /\ (file # NoFile => file' # NoFile)
  BY <1>0, <1>1 DEF files, FilesGood
<1>2. ASSUME NEW p \in Proc, save_open(p)
      PROVE  FilesGood' /\ clock <= clock' /\ (file # NoFile => file' # NoFile)
  <2>1. PICK i : i = IF tmp = NoFile THEN FreeInode ELSE tmp
    OBVIOUS
  <2>2. fd[p] = NoFile
    BY <1>2 DEF save_open, PlaceGood
  <2>3. i \in Inode /\ i # file
    BY <2>1, <2>2, FreeIs DEF TypeOK, FilesGood
  <2>4. clock' = clock + 1 /\ tmp' = i /\ file' = file /\ mtime' = [mtime EXCEPT ![i] = clock + 1]
    BY <1>2, <2>1 DEF save_open
  <2>5. mtime'[i] = clock + 1 /\ \A j \in Inode : j # i => mtime'[j] = mtime[j]
    BY <2>3, <2>4 DEF TypeOK
  <2>6. \A j, k \in Inode : j # k => mtime'[j] # mtime'[k] \/ mtime'[j] = 0
    BY <1>0, <2>5 DEF FilesGood
  <2>7. \A j \in Inode : mtime'[j] <= clock'
    BY <1>0, <2>4, <2>5 DEF FilesGood
  <2>8. (file' # NoFile => mtime'[file'] # 0 /\ file' # tmp') /\ (tmp' # NoFile => mtime'[tmp'] # 0)
    BY <1>0, <2>3, <2>4, <2>5 DEF FilesGood, TypeOK
  <2> QED BY <1>0, <2>4, <2>6, <2>7, <2>8 DEF FilesGood
<1>3. ASSUME NEW p \in Proc, save_write(p)
      PROVE  FilesGood' /\ clock <= clock' /\ (file # NoFile => file' # NoFile)
  <2>1. clock' = clock + 1 /\ tmp' = tmp /\ file' = file /\ mtime' = [mtime EXCEPT ![fd[p]] = clock + 1]
    BY <1>3 DEF save_write
  <2>2. \A j \in Inode : mtime'[j] = IF j = fd[p] THEN clock + 1 ELSE mtime[j]
    BY <2>1 DEF TypeOK
  <2>3. \A j, k \in Inode : j # k => mtime'[j] # mtime'[k] \/ mtime'[j] = 0
    BY <1>0, <2>2 DEF FilesGood
  <2>4. \A j \in Inode : mtime'[j] <= clock'
    BY <1>0, <2>1, <2>2 DEF FilesGood
  <2>5. (file' # NoFile => mtime'[file'] # 0 /\ file' # tmp') /\ (tmp' # NoFile => mtime'[tmp'] # 0)
    BY <1>0, <2>1, <2>2 DEF FilesGood, TypeOK
  <2> QED BY <1>0, <2>1, <2>3, <2>4, <2>5 DEF FilesGood
<1>4. ASSUME NEW p \in Proc, save_replace(p)
      PROVE  FilesGood' /\ clock <= clock' /\ (file # NoFile => file' # NoFile)
  BY <1>0, <1>4 DEF save_replace, FilesGood
<1>5. ASSUME request \/ \E p \in Proc : start(p) \/ maybe_reload(p) \/ load(p) \/ read_rows(p) \/ read_invalid(p)
                          \/ reloaded(p) \/ act(p) \/ save_fails(p) \/ save_sign(p) \/ finish(p) \/ kill(p)
      PROVE  FilesGood' /\ clock <= clock' /\ (file # NoFile => file' # NoFile)
  <2>1. UNCHANGED files
    BY <1>5 DEF request, start, maybe_reload, load, read_rows, read_invalid, reloaded, act, save_fails, save_sign, finish, kill
  <2> QED BY <1>1, <2>1
<1> QED BY <1>2, <1>3, <1>4, <1>5 DEF Next

\* What was revoked, or is acknowledged, was handed out before.
LEMMA MadeStep ==
  ASSUME TypeOK, MadeGood, \A p \in Proc : OpGood(p) /\ PlaceGood(p), Next
  PROVE  MadeGood' /\ made \subseteq made'
<1>1. ASSUME UNCHANGED <<revoked, ledger>>, made \subseteq made'
      PROVE  MadeGood'
  BY <1>1 DEF MadeGood, Ids
<1>2. ASSUME NEW p \in Proc
      PROVE  Ids(Effect(op[p], ledger)) \subseteq made
  <2>1. CASE op[p].kind \in Writing
    <3>1. PICK o \in Op : o = op[p]
      BY DEF TypeOK
    <3>2. o.id \in made /\ o.id \in Client
      BY <2>1, <3>1 DEF OpGood, TypeOK
    <3>3. Added(o).id = o.id
      BY <3>2, AddedIs
    <3>4. Effect(o, ledger) \subseteq ledger \cup {Added(o)}
      BY <2>1, <3>1, EffectIs DEF Writing
    <3> QED BY <3>1, <3>2, <3>3, <3>4 DEF MadeGood, Ids
  <2>2. CASE op[p].kind \notin Writing
    BY <2>2, EffectIs DEF MadeGood
  <2> QED BY <2>1, <2>2
<1>3. ASSUME NEW p \in Proc, finish(p)
      PROVE  MadeGood' /\ made \subseteq made'
  <2>1. made' = made /\ ledger' = Effect(op[p], ledger)
    BY <1>3 DEF finish
  <2>2. Cascade(ledger, op[p].id) \subseteq Ids(ledger)
    BY DEF Cascade, Ids
  <2>3. removed[p] => op[p].id \in made
    BY <1>3 DEF finish, PlaceGood, OpGood, Writing
  <2>4. revoked' \subseteq made
    BY <1>3, <2>2, <2>3 DEF finish, MadeGood
  <2> QED BY <1>2, <2>1, <2>4 DEF MadeGood
<1>4. ASSUME NEW p \in Proc, kill(p)
      PROVE  MadeGood' /\ made \subseteq made'
  <2>1. made' = made /\ revoked' = revoked /\ ledger' \in {ledger, Effect(op[p], ledger)}
    BY <1>4 DEF kill
  <2>2. Ids(ledger') \subseteq made
    BY <1>2, <2>1 DEF MadeGood
  <2> QED BY <2>1, <2>2 DEF MadeGood
<1>5. ASSUME NEW p \in Proc, start(p)
      PROVE  MadeGood' /\ made \subseteq made'
  <2>1. made \subseteq made'
    BY <1>5, StartIs
  <2> QED BY <1>1, <1>5, <2>1 DEF start
<1>6. ASSUME request
      PROVE  MadeGood' /\ made \subseteq made'
  <2>1. made \subseteq made'
    BY <1>6, RequestIs
  <2> QED BY <1>1, <1>6, <2>1 DEF request
<1>7. ASSUME NEW p \in Proc, maybe_reload(p) \/ load(p) \/ read_rows(p) \/ read_invalid(p)
                          \/ reloaded(p) \/ act(p) \/ save_open(p) \/ save_write(p) \/ save_replace(p)
                          \/ save_fails(p) \/ save_sign(p)
      PROVE  MadeGood' /\ made \subseteq made'
  <2>1. UNCHANGED <<revoked, ledger, made>>
    BY <1>7 DEF maybe_reload, load, read_rows, read_invalid, reloaded, act, save_open, save_write, save_replace,
                save_fails, save_sign, history
  <2> QED BY <1>1, <2>1
<1> QED BY <1>3, <1>4, <1>5, <1>6, <1>7 DEF Next

\* A process is only ever asked for what a call may ask for.
LEMMA OpStep ==
  ASSUME TypeOK, MadeGood, \A p \in Proc : OpGood(p) /\ PlaceGood(p), Next
  PROVE  \A q \in Proc : OpGood(q)'
<1>0. made \subseteq made'
  BY MadeStep
<1>1. ASSUME NEW q \in Proc, op'[q] = op[q]
      PROVE  OpGood(q)'
  BY <1>0, <1>1 DEF OpGood
<1>2. ASSUME NEW q \in Proc, op'[q] = StartUp
      PROVE  OpGood(q)'
  BY <1>2, StartUpIs DEF OpGood, Writing
<1>3. ASSUME NEW p \in Proc, start(p), NEW q \in Proc
      PROVE  OpGood(q)'
  <2>1. PICK o \in Op :
           /\ op' = [op EXCEPT ![p] = o]
           /\ \/ o.kind \in {"start", "list"} /\ made' = made
              \/ p # Server /\ o.kind = "create" /\ o.id \in Root \ made /\ o.owner = NoOwner /\ made' = made \cup {o.id}
              \/ p # Server /\ o.kind = "revoke" /\ o.id \in made /\ made' = made
    BY <1>3, StartIs
  <2>2. CASE q = p
    <3>1. op'[q] = o
      BY <2>1, <2>2 DEF TypeOK
    <3> QED BY <2>1, <2>2, <3>1 DEF OpGood, Writing, TypeOK
  <2>3. CASE q # p
    <3>1. op'[q] = op[q]
      BY <2>1, <2>3 DEF TypeOK
    <3> QED BY <1>1, <3>1
  <2> QED BY <2>2, <2>3
<1>4. ASSUME request, NEW q \in Proc
      PROVE  OpGood(q)'
  <2>1. PICK o \in Op :
           /\ op' = [op EXCEPT ![Server] = o]
           /\ \/ o.kind \in {"exists", "grant"} /\ made' = made
              \/ o.kind = "create_dynamic" /\ o.id \in Connector \ made /\ o.owner \in Client /\ made' = made \cup {o.id}
              \/ o.kind = "revoke" /\ o.id \in made /\ o.id \in Connector /\ made' = made
    BY <1>4, RequestIs
  <2>2. CASE q = Server
    <3>1. op'[q] = o
      BY <2>1, <2>2 DEF TypeOK, Proc
    <3> QED BY <2>1, <2>2, <3>1 DEF OpGood, Writing, Client
  <2>3. CASE q # Server
    <3>1. op'[q] = op[q]
      BY <2>1, <2>3 DEF TypeOK
    <3> QED BY <1>1, <3>1
  <2> QED BY <2>2, <2>3
<1>5. ASSUME NEW p \in Proc, NEW place, Leaves(p, place), NEW q \in Proc
      PROVE  OpGood(q)'
  BY <1>1, <1>2, <1>5, LeavesIs
<1>6. ASSUME NEW p \in Proc, maybe_reload(p) \/ load(p) \/ read_rows(p) \/ read_invalid(p)
                          \/ reloaded(p) \/ act(p) \/ save_open(p) \/ save_write(p) \/ save_replace(p)
                          \/ save_fails(p) \/ save_sign(p) \/ finish(p) \/ kill(p), NEW q \in Proc
      PROVE  OpGood(q)'
  <2>1. op' = op \/ \E place : Leaves(p, place)
    BY <1>6 DEF maybe_reload, load, read_rows, read_invalid, reloaded, act, save_open, save_write, save_replace,
                save_fails, save_sign, finish, kill
  <2> QED BY <1>1, <1>5, <2>1
<1> QED BY <1>3, <1>4, <1>6 DEF Next

\* A step of process p, and a process that does not move in it.
Step(p) ==
  \/ p = Server /\ request
  \/ start(p) \/ maybe_reload(p) \/ load(p) \/ read_rows(p) \/ read_invalid(p) \/ reloaded(p) \/ act(p)
  \/ save_open(p) \/ save_write(p) \/ save_replace(p) \/ save_fails(p) \/ save_sign(p) \/ finish(p) \/ kill(p)

Same(q) ==
  /\ pc'[q] = pc[q] /\ op'[q] = op[q] /\ booting'[q] = booting[q]
  /\ seen'[q] = seen[q] /\ stamp'[q] = stamp[q] /\ removed'[q] = removed[q]
  /\ fd'[q] = fd[q] /\ saveFor'[q] = saveFor[q]
  /\ clients'[q] = clients[q] /\ disk_sig'[q] = disk_sig[q]

\* Every step is a step of a process,
LEMMA NextIsStep ==
  ASSUME Next
  PROVE  \E p \in Proc : Step(p)
BY DEF Next, Step, Proc

\* and conversely.
LEMMA StepIsNext ==
  ASSUME NEW p \in Proc, Step(p)
  PROVE  Next
BY DEF Next, Step

\* A process moves in its own steps only.
LEMMA OthersSame ==
  ASSUME TypeOK, NEW p \in Proc, Step(p), NEW q \in Proc, q # p
  PROVE  Same(q)
<1>1. ASSUME NEW place, Leaves(p, place)
      PROVE  Same(q)
  BY <1>1, LeavesIs DEF Same
<1>2. CASE start(p)
  <2>1. PICK o : op' = [op EXCEPT ![p] = o]
    BY <1>2 DEF start
  <2> QED BY <1>2, <2>1 DEF start, Same, TypeOK
<1>3. CASE p = Server /\ request
  <2>1. PICK o : op' = [op EXCEPT ![p] = o]
    BY <1>3, RequestIs
  <2> QED BY <1>3, <2>1 DEF request, Same, TypeOK
<1>4. CASE maybe_reload(p) \/ load(p)
  BY <1>4 DEF maybe_reload, load, Same, TypeOK
<1>5. CASE read_rows(p) \/ act(p)
  BY <1>5 DEF read_rows, act, Same, TypeOK
<1>6. CASE save_open(p) \/ save_write(p) \/ save_replace(p) \/ save_sign(p)
  BY <1>6 DEF save_open, save_write, save_replace, save_sign, Same, TypeOK
<1>7. CASE read_invalid(p) \/ reloaded(p) \/ save_fails(p)
  <2>1. \/ \E place : Leaves(p, place)
        \/ UNCHANGED <<op, clients, seen, stamp, removed, fd, saveFor>>
    BY <1>7 DEF read_invalid, reloaded, save_fails
  <2>2. CASE \E place : Leaves(p, place)
    BY <1>1, <2>2
  <2>3. CASE ~ \E place : Leaves(p, place)
    BY <1>7, <2>3 DEF read_invalid, reloaded, save_fails, Same, TypeOK
  <2> QED BY <2>2, <2>3
<1>8. CASE finish(p) \/ kill(p)
  BY <1>1, <1>8 DEF finish, kill
<1> QED BY <1>2, <1>3, <1>4, <1>5, <1>6, <1>7, <1>8 DEF Step


-----------------------------------------------------------------------------
(* What each step does to the process that takes it.                       *)

\* A process starts: nothing changes but its place and its call.
LEMMA StartDoes ==
  ASSUME TypeOK, NEW p \in Proc, start(p)
  PROVE  /\ pc[p] = "off" /\ pc'[p] = "load" /\ booting'[p] = TRUE
         /\ clients'[p] = clients[p] /\ disk_sig'[p] = disk_sig[p] /\ seen'[p] = seen[p] /\ stamp'[p] = stamp[p]
         /\ removed'[p] = removed[p] /\ fd'[p] = fd[p] /\ saveFor'[p] = saveFor[p]
         /\ content' = content /\ mtime' = mtime /\ file' = file /\ tmp' = tmp /\ clock' = clock
         /\ bearers' = bearers /\ ledger' = ledger /\ revoked' = revoked /\ asked' = asked /\ spared' = spared
         /\ overlapped' = (overlapped \/ \E q \in Proc \ {p} : IsWriter(q))
<1>1. overlapped' = (overlapped \/ \E q \in Proc \ {p} : IsWriter(q))
  BY Zenon DEF start, NoteOverlap
<1> QED BY <1>1 DEF start, TypeOK, files

\* A request reaches the server; `asked' is what has been revoked by then.
LEMMA RequestDoes ==
  ASSUME TypeOK, request
  PROVE  /\ pc[Server] = "idle" /\ pc'[Server] = "stat" /\ booting'[Server] = booting[Server]
         /\ clients'[Server] = clients[Server] /\ disk_sig'[Server] = disk_sig[Server] /\ seen'[Server] = seen[Server]
         /\ stamp'[Server] = stamp[Server] /\ removed'[Server] = removed[Server] /\ fd'[Server] = fd[Server]
         /\ saveFor'[Server] = saveFor[Server]
         /\ content' = content /\ mtime' = mtime /\ file' = file /\ tmp' = tmp /\ clock' = clock
         /\ bearers' = bearers /\ ledger' = ledger /\ revoked' = revoked /\ asked' = revoked /\ spared' = spared
BY DEF request, TypeOK, files, Proc

\* The call goes on at once only when the copy is up to date.
LEMMA MaybeReloadDoes ==
  ASSUME TypeOK, NEW p \in Proc, maybe_reload(p)
  PROVE  /\ pc[p] = "stat" /\ pc'[p] \in {"act", "load"} /\ (pc'[p] = "act" => UpToDate(p)) /\ booting'[p] = booting[p]
         /\ op'[p] = op[p] /\ clients'[p] = clients[p] /\ disk_sig'[p] = disk_sig[p] /\ seen'[p] = stat_sig
         /\ stamp'[p] = stamp[p] /\ removed'[p] = removed[p] /\ fd'[p] = fd[p] /\ saveFor'[p] = saveFor[p]
         /\ content' = content /\ mtime' = mtime /\ file' = file /\ tmp' = tmp /\ clock' = clock
         /\ bearers' = bearers /\ ledger' = ledger /\ revoked' = revoked /\ asked' = asked /\ spared' = spared
         /\ made' = made /\ overlapped' = overlapped
BY DEF maybe_reload, TypeOK, files, history

\* A load takes the signature, or finds no file.
LEMMA LoadDoes ==
  ASSUME TypeOK, NEW p \in Proc, load(p)
  PROVE  /\ pc[p] = "load" /\ pc'[p] = (IF file = NoFile THEN "reloaded" ELSE "read") /\ booting'[p] = booting[p]
         /\ op'[p] = op[p] /\ clients'[p] = clients[p] /\ seen'[p] = seen[p]
         /\ disk_sig'[p] = (IF file = NoFile THEN NoSig ELSE disk_sig[p])
         /\ stamp'[p] = stat_sig /\ removed'[p] = FALSE /\ fd'[p] = fd[p] /\ saveFor'[p] = saveFor[p]
         /\ content' = content /\ mtime' = mtime /\ file' = file /\ tmp' = tmp /\ clock' = clock
         /\ bearers' = bearers /\ ledger' = ledger /\ revoked' = revoked /\ asked' = asked /\ spared' = spared
         /\ made' = made /\ overlapped' = overlapped
BY DEF load, TypeOK, files, history

\* A read takes the current clients, and has to save if there were others.
LEMMA ReadRowsDoes ==
  ASSUME TypeOK, NEW p \in Proc, read_rows(p)
  PROVE  /\ pc[p] = "read" /\ booting'[p] = booting[p] /\ content[file].valid
         /\ pc'[p] = (IF Current(content[file].rows) THEN "reloaded" ELSE "open")
         /\ op'[p] = op[p] /\ clients'[p] = Kept(content[file].rows) /\ seen'[p] = seen[p]
         /\ disk_sig'[p] = stamp[p] /\ removed'[p] = RemovedBy(p, Kept(content[file].rows))
         /\ stamp'[p] = stamp[p] /\ fd'[p] = fd[p] /\ saveFor'[p] = "reloaded"
         /\ content' = content /\ mtime' = mtime /\ file' = file /\ tmp' = tmp /\ clock' = clock
         /\ bearers' = bearers /\ ledger' = ledger /\ revoked' = revoked /\ asked' = asked /\ spared' = spared
         /\ made' = made /\ overlapped' = overlapped
BY DEF read_rows, TypeOK, files, history, Current

\* A start ends at an invalid file; a reload goes on with what it has.
LEMMA ReadInvalidDoes ==
  ASSUME TypeOK, NEW p \in Proc, read_invalid(p)
  PROVE  /\ pc[p] = "read" /\ ~ content[file].valid
         /\ \/ booting[p] /\ Leaves(p, "off")
            \/ /\ ~ booting[p] /\ pc'[p] = "act" /\ booting'[p] = booting[p] /\ op'[p] = op[p] /\ clients'[p] = clients[p]
               /\ seen'[p] = seen[p] /\ disk_sig'[p] = seen[p] /\ stamp'[p] = stamp[p] /\ removed'[p] = removed[p]
               /\ fd'[p] = fd[p] /\ saveFor'[p] = saveFor[p]
         /\ content' = content /\ mtime' = mtime /\ file' = file /\ tmp' = tmp /\ clock' = clock
<1>1. pc[p] = "read" /\ ~ content[file].valid
      /\ content' = content /\ mtime' = mtime /\ file' = file /\ tmp' = tmp /\ clock' = clock
  BY DEF read_invalid, files
<1>2. CASE booting[p]
  BY <1>1, <1>2 DEF read_invalid
<1>3. CASE ~ booting[p]
  <2>1. /\ pc'[p] = "act" /\ booting'[p] = booting[p] /\ op'[p] = op[p] /\ clients'[p] = clients[p]
        /\ seen'[p] = seen[p] /\ disk_sig'[p] = seen[p] /\ stamp'[p] = stamp[p] /\ removed'[p] = removed[p]
        /\ fd'[p] = fd[p] /\ saveFor'[p] = saveFor[p]
    BY <1>3 DEF read_invalid, TypeOK
  <2> QED BY <1>1, <1>3, <2>1
<1> QED BY <1>2, <1>3

\* The server is up, or the call goes on.
LEMMA ReloadedDoes ==
  ASSUME TypeOK, NEW p \in Proc, reloaded(p)
  PROVE  /\ pc[p] = "reloaded"
         /\ \/ p = Server /\ booting[p] /\ Leaves(p, "idle")
            \/ /\ ~ (p = Server /\ booting[p]) /\ pc'[p] = (IF booting[p] THEN "stat" ELSE "act") /\ booting'[p] = FALSE
               /\ op'[p] = op[p] /\ clients'[p] = clients[p]
               /\ seen'[p] = seen[p] /\ disk_sig'[p] = disk_sig[p] /\ stamp'[p] = stamp[p] /\ removed'[p] = removed[p]
               /\ fd'[p] = fd[p] /\ saveFor'[p] = saveFor[p] /\ asked' = asked
         /\ content' = content /\ mtime' = mtime /\ file' = file /\ tmp' = tmp /\ clock' = clock
         /\ made' = made /\ ledger' = ledger /\ revoked' = revoked /\ overlapped' = overlapped
<1>1. /\ pc[p] = "reloaded"
      /\ content' = content /\ mtime' = mtime /\ file' = file /\ tmp' = tmp /\ clock' = clock
      /\ made' = made /\ ledger' = ledger /\ revoked' = revoked /\ overlapped' = overlapped
  BY DEF reloaded, files
<1>2. CASE p = Server /\ booting[p]
  BY <1>1, <1>2 DEF reloaded
<1>3. CASE ~ (p = Server /\ booting[p])
  <2>1. /\ pc'[p] = (IF booting[p] THEN "stat" ELSE "act") /\ booting'[p] = FALSE
        /\ op'[p] = op[p] /\ clients'[p] = clients[p]
        /\ seen'[p] = seen[p] /\ disk_sig'[p] = disk_sig[p] /\ stamp'[p] = stamp[p] /\ removed'[p] = removed[p]
        /\ fd'[p] = fd[p] /\ saveFor'[p] = saveFor[p] /\ asked' = asked
    BY <1>3 DEF reloaded, TypeOK
  <2> QED BY <1>1, <1>3, <2>1
<1> QED BY <1>2, <1>3

\* The call changes the copy, and saves it if it did.
LEMMA ActDoes ==
  ASSUME TypeOK, NEW p \in Proc, act(p)
  PROVE  /\ pc[p] = "act" /\ booting'[p] = booting[p]
         /\ pc'[p] = (IF Effect(op[p], clients[p]) = clients[p] THEN "finish" ELSE "open")
         /\ op'[p] = op[p] /\ clients'[p] = Effect(op[p], clients[p]) /\ seen'[p] = seen[p]
         /\ disk_sig'[p] = disk_sig[p] /\ removed'[p] = RemovedBy(p, Effect(op[p], clients[p]))
         /\ stamp'[p] = stamp[p] /\ fd'[p] = fd[p] /\ saveFor'[p] = "finish"
         /\ content' = content /\ mtime' = mtime /\ file' = file /\ tmp' = tmp /\ clock' = clock
         /\ bearers' = bearers /\ ledger' = ledger /\ revoked' = revoked /\ asked' = asked /\ spared' = spared
         /\ made' = made /\ overlapped' = overlapped
BY DEF act, TypeOK, files, history

\* The temporary file is opened, and empty.
LEMMA SaveOpenDoes ==
  ASSUME TypeOK, NEW p \in Proc, save_open(p)
  PROVE  \E i :
         /\ i = (IF tmp = NoFile THEN FreeInode ELSE tmp) /\ pc[p] = "open" /\ pc'[p] = "write" /\ booting'[p] = booting[p]
         /\ op'[p] = op[p] /\ clients'[p] = clients[p] /\ seen'[p] = seen[p]
         /\ disk_sig'[p] = disk_sig[p] /\ removed'[p] = removed[p]
         /\ stamp'[p] = stamp[p] /\ fd'[p] = i /\ saveFor'[p] = saveFor[p]
         /\ content' = [content EXCEPT ![i] = Invalid] /\ mtime' = [mtime EXCEPT ![i] = clock + 1]
         /\ file' = file /\ tmp' = i /\ clock' = clock + 1
         /\ bearers' = bearers /\ ledger' = ledger /\ revoked' = revoked /\ asked' = asked /\ spared' = spared
         /\ made' = made /\ overlapped' = overlapped
<1>1. PICK i : i = (IF tmp = NoFile THEN FreeInode ELSE tmp)
  OBVIOUS
<1>2. /\ content' = [content EXCEPT ![i] = Invalid] /\ mtime' = [mtime EXCEPT ![i] = clock + 1] /\ tmp' = i
      /\ fd' = [fd EXCEPT ![p] = i]
  BY <1>1 DEF save_open
<1>3. /\ pc[p] = "open" /\ pc'[p] = "write" /\ booting'[p] = booting[p]
      /\ op'[p] = op[p] /\ clients'[p] = clients[p] /\ seen'[p] = seen[p]
      /\ disk_sig'[p] = disk_sig[p] /\ removed'[p] = removed[p]
      /\ stamp'[p] = stamp[p] /\ saveFor'[p] = saveFor[p] /\ file' = file /\ clock' = clock + 1
      /\ bearers' = bearers /\ ledger' = ledger /\ revoked' = revoked /\ asked' = asked /\ spared' = spared
      /\ made' = made /\ overlapped' = overlapped
  BY DEF save_open, TypeOK, history
<1>4. fd'[p] = i
  BY <1>2 DEF TypeOK
<1> QED BY <1>1, <1>2, <1>3, <1>4

\* The copy is written to it, if it was still empty.
LEMMA SaveWriteDoes ==
  ASSUME TypeOK, NEW p \in Proc, save_write(p)
  PROVE  /\ pc[p] = "write" /\ pc'[p] = "replace" /\ booting'[p] = booting[p]
         /\ op'[p] = op[p] /\ clients'[p] = clients[p] /\ seen'[p] = seen[p]
         /\ disk_sig'[p] = disk_sig[p] /\ removed'[p] = removed[p]
         /\ stamp'[p] = stamp[p] /\ fd'[p] = NoFile /\ saveFor'[p] = saveFor[p]
         /\ (~ content[fd[p]].valid => content' = [content EXCEPT ![fd[p]] = Json(clients[p])])
         /\ mtime' = [mtime EXCEPT ![fd[p]] = clock + 1]
         /\ file' = file /\ tmp' = tmp /\ clock' = clock + 1
         /\ bearers' = bearers /\ ledger' = ledger /\ revoked' = revoked /\ asked' = asked /\ spared' = spared
         /\ made' = made /\ overlapped' = overlapped
<1>1. ~ content[fd[p]].valid => content' = [content EXCEPT ![fd[p]] = Json(clients[p])]
  BY DEF save_write
<1> QED BY <1>1 DEF save_write, TypeOK, history

\* The temporary file becomes the file.
LEMMA SaveReplaceDoes ==
  ASSUME TypeOK, NEW p \in Proc, save_replace(p)
  PROVE  /\ pc[p] = "replace" /\ pc'[p] = "sign" /\ booting'[p] = booting[p] /\ tmp # NoFile
         /\ op'[p] = op[p] /\ clients'[p] = clients[p] /\ seen'[p] = seen[p]
         /\ disk_sig'[p] = disk_sig[p] /\ removed'[p] = removed[p]
         /\ stamp'[p] = stamp[p] /\ fd'[p] = fd[p] /\ saveFor'[p] = saveFor[p]
         /\ content' = content /\ mtime' = mtime /\ file' = tmp /\ tmp' = NoFile /\ clock' = clock
         /\ bearers' = bearers /\ ledger' = ledger /\ revoked' = revoked /\ asked' = asked /\ spared' = spared
         /\ made' = made /\ overlapped' = overlapped
BY DEF save_replace, TypeOK, history

\* There is no temporary file to rename.
LEMMA SaveFailsDoes ==
  ASSUME TypeOK, NEW p \in Proc, save_fails(p)
  PROVE  /\ pc[p] = "replace" /\ tmp = NoFile
         /\ \/ \E place \in {"off", "idle"} : Leaves(p, place)
            \/ /\ saveFor[p] = "reloaded" /\ ~ booting[p] /\ pc'[p] = "act" /\ booting'[p] = booting[p]
               /\ op'[p] = op[p] /\ clients'[p] = clients[p]
               /\ seen'[p] = seen[p] /\ disk_sig'[p] = seen[p] /\ stamp'[p] = stamp[p] /\ removed'[p] = removed[p]
               /\ fd'[p] = fd[p] /\ saveFor'[p] = saveFor[p]
         /\ content' = content /\ mtime' = mtime /\ file' = file /\ tmp' = tmp /\ clock' = clock
<1>1. /\ pc[p] = "replace" /\ tmp = NoFile
      /\ content' = content /\ mtime' = mtime /\ file' = file /\ tmp' = tmp /\ clock' = clock
  BY DEF save_fails, files
<1>2. CASE saveFor[p] = "reloaded" /\ ~ booting[p]
  <2>1. /\ pc'[p] = "act" /\ booting'[p] = booting[p] /\ op'[p] = op[p] /\ clients'[p] = clients[p]
        /\ seen'[p] = seen[p] /\ disk_sig'[p] = seen[p] /\ stamp'[p] = stamp[p] /\ removed'[p] = removed[p]
        /\ fd'[p] = fd[p] /\ saveFor'[p] = saveFor[p]
    BY <1>2 DEF save_fails, TypeOK
  <2> QED BY <1>1, <1>2, <2>1
<1>3. CASE ~ (saveFor[p] = "reloaded" /\ ~ booting[p])
  BY <1>1, <1>3 DEF save_fails
<1> QED BY <1>2, <1>3

\* The signature of the file is recorded.
LEMMA SaveSignDoes ==
  ASSUME TypeOK, NEW p \in Proc, save_sign(p)
  PROVE  /\ pc[p] = "sign" /\ pc'[p] = saveFor[p] /\ saveFor[p] \in {"reloaded", "finish"} /\ booting'[p] = booting[p]
         /\ op'[p] = op[p] /\ clients'[p] = clients[p] /\ seen'[p] = seen[p]
         /\ disk_sig'[p] = stat_sig /\ removed'[p] = removed[p]
         /\ stamp'[p] = stamp[p] /\ fd'[p] = fd[p] /\ saveFor'[p] = saveFor[p]
         /\ content' = content /\ mtime' = mtime /\ file' = file /\ tmp' = tmp /\ clock' = clock
         /\ bearers' = bearers /\ ledger' = ledger /\ revoked' = revoked /\ asked' = asked /\ spared' = spared
         /\ made' = made /\ overlapped' = overlapped
BY DEF save_sign, TypeOK, files, history

-----------------------------------------------------------------------------
(* Signatures and places.                                                  *)

\* No process knows a signature that was not given out yet.
LEMMA SigsStep ==
  ASSUME TypeOK, FilesGood, \A q \in Proc : PlaceGood(q) /\ SigsPast(q), NEW p \in Proc, Step(p)
  PROVE  \A q \in Proc : SigsPast(q)'
<1>0. clock <= clock' /\ clock \in Nat /\ clock' \in Nat
  <2>1. clock \in Nat
    BY Bounds DEF TypeOK
  <2>2. clock' \in {clock, clock + 1}
    BY DEF Step, request, start, maybe_reload, load, read_rows, read_invalid, reloaded, act, save_open, save_write,
           save_replace, save_fails, save_sign, finish, kill, files
  <2> QED BY <2>1, <2>2
<1>1. \A q \in Proc : /\ disk_sig[q] \in Nat /\ seen[q] \in Nat /\ stamp[q] \in Nat
                      /\ disk_sig[q] <= clock /\ seen[q] <= clock /\ stamp[q] <= clock
  BY Bounds DEF TypeOK, SigsPast
<1>2. ASSUME NEW q \in Proc, q # p
      PROVE  SigsPast(q)'
  <2>1. Same(q)
    BY <1>2, OthersSame
  <2> QED BY <1>0, <1>1, <2>1 DEF SigsPast, Same
<1>3. stat_sig \in Nat /\ stat_sig <= clock
  BY <1>0, StatIs, Bounds DEF FilesGood
<1>4. ASSUME disk_sig'[p] \in {disk_sig[p], seen[p], stamp[p], stat_sig, 0},
             seen'[p] \in {seen[p], stat_sig, 0}, stamp'[p] \in {stamp[p], stat_sig, 0}
      PROVE  SigsPast(p)'
  <2>1. 0 <= clock
    BY <1>0
  <2> QED BY <1>0, <1>1, <1>3, <1>4, <2>1 DEF SigsPast
<1>5. ASSUME NEW place, Leaves(p, place)
      PROVE  SigsPast(p)'
  BY <1>4, <1>5, LeavesIs DEF NoSig
<1>s. SUFFICES SigsPast(p)'
  BY <1>2
<1>6. CASE start(p)
  BY <1>4, <1>6, StartDoes
<1>7. CASE p = Server /\ request
  BY <1>4, <1>7, RequestDoes
<1>8. CASE maybe_reload(p)
  BY <1>4, <1>8, MaybeReloadDoes
<1>9. CASE load(p)
  BY <1>4, <1>9, LoadDoes DEF NoSig
<1>10. CASE read_rows(p)
  BY <1>4, <1>10, ReadRowsDoes
<1>11. CASE read_invalid(p)
  BY <1>4, <1>5, <1>11, ReadInvalidDoes
<1>12. CASE reloaded(p)
  BY <1>4, <1>5, <1>12, ReloadedDoes
<1>13. CASE act(p)
  BY <1>4, <1>13, ActDoes
<1>14. CASE save_open(p)
  BY <1>4, <1>14, SaveOpenDoes
<1>15. CASE save_write(p)
  BY <1>4, <1>15, SaveWriteDoes
<1>16. CASE save_replace(p)
  BY <1>4, <1>16, SaveReplaceDoes
<1>17. CASE save_fails(p)
  BY <1>4, <1>5, <1>17, SaveFailsDoes
<1>18. CASE save_sign(p)
  BY <1>4, <1>18, SaveSignDoes
<1>19. CASE finish(p) \/ kill(p)
  BY <1>5, <1>19 DEF finish, kill
<1> QED
  BY <1>6, <1>7, <1>8, <1>9, <1>10, <1>11, <1>12, <1>13, <1>14, <1>15, <1>16, <1>17, <1>18, <1>19 DEF Step

\* What a call drops, only a revocation drops.
LEMMA OnlyRevokeDrops ==
  ASSUME NEW p \in Proc, op[p].kind # "revoke"
  PROVE  ~ RemovedBy(p, Effect(op[p], clients[p]))
<1>1. PICK o, rows : o = op[p] /\ rows = clients[p]
  OBVIOUS
<1>2. rows \subseteq Effect(o, rows)
  BY <1>1, EffectIs DEF Writing
<1>3. Ids(rows) \subseteq Ids(Effect(o, rows))
  BY <1>2 DEF Ids
<1> QED BY <1>1, <1>3 DEF RemovedBy

\* A process's variables fit the place it is at, after every step.
LEMMA PlaceStep ==
  ASSUME TypeOK, FilesGood, \A q \in Proc : PlaceGood(q), NEW p \in Proc, Step(p)
  PROVE  \A q \in Proc : PlaceGood(q)'
<1>0. file # NoFile => file' # NoFile
  BY FilesStep, StepIsNext
<1>1. PlaceGood(p)
  OBVIOUS
<1>2. ASSUME NEW q \in Proc, q # p
      PROVE  PlaceGood(q)'
  <2>1. Same(q) /\ PlaceGood(q)
    BY <1>2, OthersSame
  <2> QED BY <1>0, <2>1 DEF PlaceGood, Same, Saving
<1>4. ASSUME NEW place \in {"off", "idle"}, Leaves(p, place)
      PROVE  PlaceGood(p)'
  BY <1>4, LeavesIs DEF PlaceGood, Saving
<1>s. SUFFICES PlaceGood(p)'
  BY <1>2
<1>6. CASE start(p)
  BY <1>1, <1>6, StartDoes DEF PlaceGood, Saving
<1>7. CASE p = Server /\ request
  BY <1>1, <1>7, RequestDoes DEF PlaceGood, Saving
<1>8. CASE maybe_reload(p)
  BY <1>1, <1>8, MaybeReloadDoes DEF PlaceGood, Saving
<1>9. CASE load(p)
  BY <1>1, <1>9, LoadDoes DEF PlaceGood, Saving
<1>10. CASE read_rows(p)
  BY <1>1, <1>10, ReadRowsDoes DEF PlaceGood, Saving
<1>11. CASE read_invalid(p)
  <2>1. CASE booting[p]
    BY <1>4, <1>11, <2>1, ReadInvalidDoes
  <2>2. CASE ~ booting[p]
    BY <1>1, <1>11, <2>2, ReadInvalidDoes DEF PlaceGood, Saving
  <2> QED BY <2>1, <2>2
<1>12. CASE reloaded(p)
  <2>1. CASE p = Server /\ booting[p]
    BY <1>4, <1>12, <2>1, ReloadedDoes
  <2>2. CASE ~ (p = Server /\ booting[p])
    BY <1>1, <1>12, <2>2, ReloadedDoes DEF PlaceGood, Saving
  <2> QED BY <2>1, <2>2
<1>13. CASE act(p)
  <2>1. op[p].kind # "revoke" => ~ RemovedBy(p, Effect(op[p], clients[p]))
    BY OnlyRevokeDrops
  <2> QED BY <1>1, <1>13, <2>1, ActDoes DEF PlaceGood, Saving
<1>14. CASE save_open(p)
  BY <1>1, <1>14, SaveOpenDoes DEF PlaceGood, Saving
<1>15. CASE save_write(p)
  BY <1>1, <1>15, SaveWriteDoes DEF PlaceGood, Saving
<1>16. CASE save_replace(p)
  BY <1>1, <1>16, SaveReplaceDoes DEF PlaceGood, Saving
<1>17. CASE save_fails(p)
  <2>1. CASE \E place \in {"off", "idle"} : Leaves(p, place)
    BY <1>4, <2>1
  <2>2. CASE ~ \E place \in {"off", "idle"} : Leaves(p, place)
    BY <1>1, <1>17, <2>2, SaveFailsDoes DEF PlaceGood, Saving
  <2> QED BY <2>1, <2>2
<1>18. CASE save_sign(p)
  BY <1>1, <1>18, SaveSignDoes DEF PlaceGood, Saving
<1>19. CASE finish(p) \/ kill(p)
  BY <1>4, <1>19 DEF finish, kill
<1> QED
  BY <1>6, <1>7, <1>8, <1>9, <1>10, <1>11, <1>12, <1>13, <1>14, <1>15, <1>16, <1>17, <1>18, <1>19 DEF Step

-----------------------------------------------------------------------------
(* One process writes.                                                     *)

\* A process that does not move writes, and is about to acknowledge, what it did before.
LEMMA SameIs ==
  ASSUME NEW q \in Proc, Same(q)
  PROVE  /\ IsWriter(q)' <=> IsWriter(q)
         /\ Busy(q)' <=> Busy(q)
         /\ op'[q] = op[q]
<1>1. IsWriter(q)' <=> IsWriter(q)
  BY DEF Same, IsWriter, Running
<1>2. Busy(q)' <=> Busy(q)
  BY DEF Same, Busy, Landed, Writes
<1> QED BY <1>1, <1>2 DEF Same

\* A process with an unacknowledged change in the file is a writer.
LEMMA BusyWrites ==
  ASSUME NEW q \in Proc, Busy(q)
  PROVE  IsWriter(q) /\ Writes(q) /\ pc[q] \in {"sign", "finish"}
BY DEF Busy, Landed, Writes, IsWriter, Running

\* Only writers save.
LEMMA SavingWrites ==
  ASSUME Coherent, NEW p \in Proc, pc[p] \in Saving
  PROVE  IsWriter(p)
BY DEF Coherent, SaveGood

\* What nobody else does while p writes.
LEMMA AloneIs ==
  ASSUME Coherent, NEW p \in Proc, IsWriter(p), NEW q \in Proc, q # p
  PROVE  ~ IsWriter(q) /\ ~ Busy(q) /\ pc[q] \notin Saving
<1>1. ~ IsWriter(q)
  BY DEF Coherent, OneWriter
<1> QED BY <1>1, BusyWrites, SavingWrites

\* While a writer has not put its change in the file, the file is the ledger.
LEMMA WriterSeesLedger ==
  ASSUME Coherent, NEW p \in Proc, IsWriter(p), ~ Busy(p)
  PROVE  Published = ledger
<1>1. \A q \in Proc : ~ Busy(q)
  BY AloneIs
<1> QED BY <1>1 DEF Coherent, LedgerGood

\* A step that leaves the file alone leaves what is published.
LEMMA SamePublished ==
  ASSUME file' = file, file # NoFile => content'[file] = content[file]
  PROVE  Published' = Published
BY DEF Published

\* Nor does it touch the save of a process that does not move,
LEMMA SameSave ==
  ASSUME NEW q \in Proc, Same(q), SaveGood(q),
         pc[q] \in Saving => file' = file /\ tmp' = tmp /\ content' = content /\ ledger' = ledger
  PROVE  SaveGood(q)'
<1>1. CASE pc[q] \in Saving
  <2>1. IsWriter(q)' <=> IsWriter(q)
    BY SameIs
  <2>2. pc[q] = "write" => (tmp # NoFile /\ fd[q] = tmp /\ ~ content[tmp].valid)'
    BY <1>1 DEF Same, SaveGood
  <2>3. pc[q] = "replace" => (tmp # NoFile /\ content[tmp] = Json(clients[q]))'
    BY <1>1 DEF Same, SaveGood
  <2>4. pc[q] = "sign" => (file # NoFile /\ content[file] = Json(clients[q]))'
    BY <1>1 DEF Same, SaveGood
  <2>5. pc[q] \in {"open", "write", "replace"} =>
          clients'[q] = IF saveFor'[q] = "finish" THEN Effect(op'[q], ledger') ELSE ledger'
    BY <1>1 DEF Same, SaveGood
  <2> QED BY <2>1, <2>2, <2>3, <2>4, <2>5 DEF Same, SaveGood
<1>2. CASE pc[q] \notin Saving
  BY <1>2 DEF Same, SaveGood, Saving
<1> QED BY <1>1, <1>2

\* or its copy.
LEMMA SameCopy ==
  ASSUME NEW q \in Proc, Same(q), CopyGood(q), file' = file,
         file # NoFile => content'[file] = content[file] /\ mtime'[file] = mtime[file]
  PROVE  CopyGood(q)'
<1>1. IsWriter(q)' <=> IsWriter(q)
  BY SameIs
<1>2. Published' = Published
  BY SamePublished
<1>3. file # NoFile => (Current(content[file].rows)' <=> Current(content[file].rows))
  BY DEF Current
<1> QED BY <1>1, <1>2, <1>3 DEF Same, CopyGood

\* The ledger agrees with the file after a step that changes neither.
LEMMA LedgerSame ==
  ASSUME TypeOK, LedgerGood, NEW p \in Proc, Step(p), Published' = Published, ledger' = ledger,
         Busy(p)' <=> Busy(p), Busy(p) => op'[p] = op[p]
  PROVE  LedgerGood'
<1>1. \A q \in Proc : (Busy(q)' <=> Busy(q)) /\ (Busy(q) => op'[q] = op[q])
  BY SameIs, OthersSame
<1> QED BY <1>1 DEF LedgerGood

\* What holds of the server between requests holds while it does not move.
LEMMA ServerSame ==
  ASSUME ServerGood, Same(Server), asked' = asked, bearers' = bearers, spared' = spared
  PROVE  ServerGood'
BY DEF ServerGood, Same

\* The revoked clients stay apart from the ledger while both stay the same,
LEMMA RevokedSame ==
  ASSUME TypeOK, RevokedGood, NEW p \in Proc, Step(p), ledger' = ledger, revoked' = revoked, asked' \in {asked, revoked, {}},
         IsWriter(p)' => IsWriter(p) /\ op'[p] = op[p]
  PROVE  RevokedGood'
<1>1. \A q \in Proc : IsWriter(q)' => IsWriter(q) /\ op'[q] = op[q]
  BY SameIs, OthersSame
<1> QED BY <1>1 DEF RevokedGood, Ids

\* and there is one writer at most while nobody becomes one.
LEMMA OneWriterSame ==
  ASSUME TypeOK, OneWriter, NEW p \in Proc, Step(p), IsWriter(p)' => IsWriter(p)
  PROVE  OneWriter'
<1>1. \A q \in Proc : IsWriter(q)' => IsWriter(q)
  BY SameIs, OthersSame
<1> QED BY <1>1 DEF OneWriter

\* The temporary file's signature is not one that was ever taken.
LEMMA TmpUnseen ==
  ASSUME TypeOK, FilesGood, SigsGood, tmp # NoFile
  PROVE  /\ mtime[tmp] # NoSig /\ mtime[tmp] # stat_sig
         /\ \A q \in Proc : mtime[tmp] \notin {disk_sig[q], seen[q], stamp[q]}
<1>1. tmp \in Inode /\ mtime[tmp] # 0 /\ (file # NoFile => file \in Inode /\ file # tmp)
  BY DEF TypeOK, FilesGood
<1>2. mtime[tmp] # stat_sig
  BY <1>1, StatIs DEF FilesGood
<1> QED BY <1>1, <1>2 DEF SigsGood, NoSig

\* The temporary file's signature stays unknown while nobody takes it.
LEMMA SigsSame ==
  ASSUME TypeOK, SigsGood, NEW p \in Proc, Step(p), mtime' = mtime, tmp' = tmp,
         tmp # NoFile => mtime[tmp] \notin {disk_sig'[p], seen'[p], stamp'[p]}
  PROVE  SigsGood'
<1>1. \A q \in Proc : tmp # NoFile => mtime[tmp] \notin {disk_sig'[q], seen'[q], stamp'[q]}
  <2>1. TAKE q \in Proc
  <2>2. CASE q = p
    BY <2>2
  <2>3. CASE q # p
    BY <2>3, OthersSame DEF Same, SigsGood
  <2> QED BY <2>2, <2>3
<1> QED BY <1>1 DEF SigsGood

\* A step that touches neither the files nor the ledger.
LEMMA QuietStep ==
  ASSUME TypeOK, Coherent, NEW p \in Proc, Step(p),
         content' = content, mtime' = mtime, file' = file, tmp' = tmp,
         ledger' = ledger, revoked' = revoked, asked' \in {asked, {}},
         IsWriter(p)' => IsWriter(p) /\ op'[p] = op[p],
         tmp # NoFile => mtime[tmp] \notin {disk_sig'[p], seen'[p], stamp'[p]},
         SaveGood(p)', CopyGood(p)', LedgerGood', ServerGood'
  PROVE  Coherent'
<1>1. FileWhole'
  BY DEF Coherent, FileWhole
<1>2. SigsGood'
  BY SigsSame DEF Coherent
<1>3. OneWriter' /\ RevokedGood'
  BY OneWriterSame, RevokedSame DEF Coherent
<1>4. ASSUME NEW q \in Proc
      PROVE  SaveGood(q)' /\ CopyGood(q)'
  <2>1. CASE q = p
    BY <2>1
  <2>2. CASE q # p
    BY <2>2, OthersSame, SameSave, SameCopy DEF Coherent
  <2> QED BY <2>1, <2>2
<1> QED BY <1>1, <1>2, <1>3, <1>4 DEF Coherent

\* A call brings back no client but the one it creates.
LEMMA EffectIds ==
  ASSUME NEW o \in Op, NEW rows \in SUBSET Row, NEW gone, gone \cap Ids(rows) = {},
         o.kind \in {"create", "create_dynamic"} => o.id \in Client /\ o.id \notin gone
  PROVE  gone \cap Ids(Effect(o, rows)) = {}
<1>1. CASE o.kind \in {"create", "create_dynamic"}
  <2>1. PICK a : a = Added(o) /\ a.id = o.id
    BY <1>1, AddedIs
  <2>2. Effect(o, rows) \subseteq rows \cup {a}
    BY <1>1, <2>1, EffectIs
  <2> QED BY <1>1, <2>1, <2>2 DEF Ids
<1>2. CASE o.kind \notin {"create", "create_dynamic"}
  <2>1. Effect(o, rows) \subseteq rows
    BY <1>2, EffectIs DEF Writing
  <2> QED BY <2>1 DEF Ids
<1> QED BY <1>1, <1>2

\* What was revoked is in no file.
LEMMA PublishedClean ==
  ASSUME Sound, Coherent
  PROVE  revoked \cap Ids(Published) = {}
<1>1. CASE \A q \in Proc : ~ Busy(q)
  BY <1>1 DEF Coherent, LedgerGood, RevokedGood
<1>2. CASE \E q \in Proc : Busy(q)
  <2>1. PICK q \in Proc : Busy(q)
    BY <1>2
  <2>2. Published = Effect(op[q], ledger) /\ IsWriter(q)
    BY <2>1, BusyWrites DEF Coherent, LedgerGood
  <2>3. PICK o \in Op : o = op[q]
    BY DEF Sound, TypeOK
  <2>4. o.kind \in {"create", "create_dynamic"} => o.id \in Client /\ o.id \notin revoked
    BY <2>2, <2>3 DEF Coherent, RevokedGood, Sound, OpGood, Client
  <2>5. ledger \in SUBSET Row /\ revoked \cap Ids(ledger) = {}
    BY DEF Sound, TypeOK, Coherent, RevokedGood
  <2> QED BY <2>2, <2>3, <2>4, <2>5, EffectIds
<1> QED BY <1>1, <1>2

\* A copy that may be used without reading the file is the file's.
LEMMA UpToDateIs ==
  ASSUME Sound, Coherent, NEW p \in Proc, pc[p] = "stat", UpToDate(p)
  PROVE  clients[p] = Published
<1>1. CopyGood(p)
  BY DEF Coherent
<1>2. CASE file = NoFile
  BY <1>1, <1>2 DEF CopyGood, Published
<1>3. CASE file # NoFile
  <2>1. stat_sig = mtime[file] /\ stat_sig # NoSig
    BY <1>3, StatIs DEF Sound, FilesGood, NoSig
  <2>2. disk_sig[p] = mtime[file]
    BY <2>1 DEF UpToDate
  <2> QED BY <1>1, <1>3, <2>2 DEF CopyGood, Saving
<1> QED BY <1>2, <1>3

-----------------------------------------------------------------------------
(* The steps of a call until it acts.                                      *)

\* A call that has not renamed its file has nothing to acknowledge.
LEMMA NotLanded ==
  ASSUME NEW p \in Proc, pc[p] \notin {"sign", "finish"}
  PROVE  ~ Busy(p)
BY DEF Busy, Landed

\* A new writer: nobody else was one, and what it will create is new.
LEMMA NewWriter ==
  ASSUME Sound, Coherent, NEW p \in Proc, Step(p), IsWriter(p)' => \A q \in Proc : q # p => ~ IsWriter(q),
         IsWriter(p)' /\ op'[p].kind \in {"create", "create_dynamic"} => op'[p].id \notin made,
         revoked' = revoked, ledger' = ledger, asked' \in {asked, revoked}
  PROVE  OneWriter' /\ RevokedGood'
<1>1. \A q \in Proc : q # p => (IsWriter(q)' <=> IsWriter(q)) /\ op'[q] = op[q]
  BY SameIs, OthersSame DEF Sound
<1>2. OneWriter'
  <2>1. SUFFICES ASSUME NEW a \in Proc, NEW b \in Proc, IsWriter(a)', IsWriter(b)', a # b
                 PROVE  FALSE
    BY DEF OneWriter
  <2>2. CASE a = p
    BY <1>1, <2>1, <2>2
  <2>3. CASE b = p
    BY <1>1, <2>1, <2>3
  <2>4. CASE a # p /\ b # p
    BY <1>1, <2>1, <2>4 DEF Coherent, OneWriter
  <2> QED BY <2>2, <2>3, <2>4
<1>3. revoked \subseteq made
  BY DEF Sound, MadeGood
<1>4. ASSUME NEW q \in Proc, IsWriter(q)', op'[q].kind \in {"create", "create_dynamic"}
      PROVE  op'[q].id \notin revoked
  <2>1. CASE q = p
    BY <1>3, <1>4, <2>1
  <2>2. CASE q # p
    BY <1>1, <1>4, <2>2 DEF Coherent, RevokedGood
  <2> QED BY <2>1, <2>2
<1>5. asked' \subseteq revoked /\ revoked \cap Ids(ledger) = {}
  BY DEF Coherent, RevokedGood
<1> QED BY <1>2, <1>4, <1>5 DEF RevokedGood, Ids

\* A step that may make p a writer and touches neither the files nor the ledger.
LEMMA CallStep ==
  ASSUME Sound, Coherent, NEW p \in Proc, Step(p),
         content' = content, mtime' = mtime, file' = file, tmp' = tmp, ledger' = ledger,
         disk_sig'[p] = disk_sig[p], seen'[p] = seen[p], stamp'[p] = stamp[p],
         pc[p] \notin {"sign", "finish"}, pc'[p] \notin {"sign", "finish"},
         OneWriter', RevokedGood', SaveGood(p)', CopyGood(p)', ServerGood'
  PROVE  Coherent'
<1>0. TypeOK
  BY DEF Sound
<1>1. FileWhole'
  BY DEF Coherent, FileWhole
<1>2. SigsGood'
  BY <1>0, SigsSame DEF Coherent, SigsGood
<1>3. ~ Busy(p) /\ ~ Busy(p)'
  BY NotLanded DEF Busy, Landed
<1>4. LedgerGood'
  BY <1>0, <1>3, LedgerSame, SamePublished DEF Coherent
<1>5. ASSUME NEW q \in Proc
      PROVE  SaveGood(q)' /\ CopyGood(q)'
  <2>1. CASE q = p
    BY <2>1
  <2>2. CASE q # p
    BY <1>0, <2>2, OthersSame, SameSave, SameCopy DEF Coherent
  <2> QED BY <2>1, <2>2
<1> QED BY <1>1, <1>2, <1>4, <1>5 DEF Coherent

\* A start keeps the copies, the file and the ledger together: it begins with nothing.
LEMMA StartCoheres ==
  ASSUME Sound, Coherent, NEW p \in Proc, start(p), ~ overlapped'
  PROVE  Coherent'
<1>0. TypeOK /\ PlaceGood(p) /\ FilesGood /\ Step(p)
  BY DEF Sound, Step
<1>1. /\ pc[p] = "off" /\ pc'[p] = "load" /\ booting'[p] = TRUE
      /\ clients'[p] = clients[p] /\ disk_sig'[p] = disk_sig[p] /\ seen'[p] = seen[p] /\ stamp'[p] = stamp[p]
      /\ content' = content /\ mtime' = mtime /\ file' = file /\ tmp' = tmp
      /\ bearers' = bearers /\ ledger' = ledger /\ revoked' = revoked /\ asked' = asked /\ spared' = spared
  BY <1>0, StartDoes
<1>2. \A q \in Proc : q # p => ~ IsWriter(q)
  BY <1>0, StartDoes
<1>3. op'[p].kind \in {"create", "create_dynamic"} => op'[p].id \notin made
  <2>1. PICK o \in Op :
           /\ op' = [op EXCEPT ![p] = o]
           /\ \/ o.kind \in {"start", "list"} /\ made' = made
              \/ p # Server /\ o.kind = "create" /\ o.id \in Root \ made /\ o.owner = NoOwner /\ made' = made \cup {o.id}
              \/ p # Server /\ o.kind = "revoke" /\ o.id \in made /\ made' = made
    BY <1>0, StartIs
  <2>2. op'[p] = o
    BY <1>0, <2>1 DEF TypeOK
  <2> QED BY <2>1, <2>2
<1>4. OneWriter' /\ RevokedGood'
  BY <1>0, <1>1, <1>2, <1>3, NewWriter
<1>5. SaveGood(p)'
  BY <1>1 DEF SaveGood, Saving
<1>6. CopyGood(p)'
  <2>1. clients'[p] = {} /\ disk_sig'[p] = 0
    BY <1>0, <1>1 DEF PlaceGood, NoSig
  <2>2. file # NoFile => mtime[file] # 0
    BY <1>0 DEF FilesGood
  <2> QED BY <1>1, <2>1, <2>2 DEF CopyGood
<1>7. ServerGood'
  <2>1. CASE p = Server
    BY <1>1, <2>1 DEF ServerGood
  <2>2. CASE p # Server
    BY <1>0, <1>1, <2>2, OthersSame, ServerSame DEF Coherent, Proc
  <2> QED BY <2>1, <2>2
<1> QED BY <1>0, <1>1, <1>4, <1>5, <1>6, <1>7, CallStep

\* A request does: it begins with the copy the last one left.
LEMMA RequestCoheres ==
  ASSUME Sound, Coherent, request, ~ overlapped'
  PROVE  Coherent'
<1>0. TypeOK /\ PlaceGood(Server) /\ Step(Server) /\ Server \in Proc /\ CopyGood(Server) /\ ServerGood
  BY DEF Sound, Step, Proc, Coherent
<1>1. /\ pc[Server] = "idle" /\ pc'[Server] = "stat" /\ booting'[Server] = booting[Server]
      /\ clients'[Server] = clients[Server] /\ disk_sig'[Server] = disk_sig[Server] /\ seen'[Server] = seen[Server]
      /\ stamp'[Server] = stamp[Server]
      /\ content' = content /\ mtime' = mtime /\ file' = file /\ tmp' = tmp
      /\ bearers' = bearers /\ ledger' = ledger /\ revoked' = revoked /\ asked' = revoked /\ spared' = spared
  BY <1>0, RequestDoes
<1>2. ~ booting[Server]
  BY <1>0, <1>1 DEF PlaceGood, Saving
<1>3. PICK o \in Op :
           /\ op' = [op EXCEPT ![Server] = o]
           /\ overlapped' = (overlapped \/ (o.kind \in Writing /\ \E q \in Proc \ {Server} : IsWriter(q)))
           /\ \/ o.kind \in {"exists", "grant"} /\ made' = made
              \/ o.kind = "create_dynamic" /\ o.id \in Connector \ made /\ o.owner \in Client /\ made' = made \cup {o.id}
              \/ o.kind = "revoke" /\ o.id \in made /\ o.id \in Connector /\ made' = made
  BY <1>0, RequestIs
<1>4. op'[Server] = o
  BY <1>0, <1>3 DEF TypeOK
<1>5. IsWriter(Server)' => o.kind \in Writing
  BY <1>1, <1>2, <1>4 DEF IsWriter
<1>6. o.kind \in Writing => \A q \in Proc : q # Server => ~ IsWriter(q)
  BY <1>3
<1>7. OneWriter' /\ RevokedGood'
  BY <1>0, <1>1, <1>3, <1>4, <1>5, <1>6, NewWriter
<1>8. SaveGood(Server)'
  BY <1>1 DEF SaveGood, Saving
<1>9. CopyGood(Server)'
  <2>1. Published' = Published
    BY <1>1, SamePublished
  <2> QED BY <1>0, <1>1, <1>2, <2>1 DEF CopyGood, Saving, Current
<1>10. ServerGood'
  BY <1>0, <1>1, <1>2 DEF ServerGood, Saving, Looked
<1> QED BY <1>0, <1>1, <1>7, <1>8, <1>9, <1>10, CallStep

\* Looking at the signature does: an equal one means an equal copy.
LEMMA MaybeReloadCoheres ==
  ASSUME Sound, Coherent, NEW p \in Proc, maybe_reload(p)
  PROVE  Coherent'
<1>0. TypeOK /\ FilesGood /\ PlaceGood(p) /\ Step(p) /\ CopyGood(p) /\ ServerGood /\ SigsGood /\ LedgerGood
  BY DEF Sound, Step, Coherent
<1>1. /\ pc[p] = "stat" /\ pc'[p] \in {"act", "load"} /\ (pc'[p] = "act" => UpToDate(p)) /\ booting'[p] = booting[p]
      /\ op'[p] = op[p] /\ clients'[p] = clients[p] /\ disk_sig'[p] = disk_sig[p] /\ seen'[p] = stat_sig
      /\ stamp'[p] = stamp[p] /\ removed'[p] = removed[p]
      /\ content' = content /\ mtime' = mtime /\ file' = file /\ tmp' = tmp
      /\ bearers' = bearers /\ ledger' = ledger /\ revoked' = revoked /\ asked' = asked /\ spared' = spared
  BY <1>0, MaybeReloadDoes
<1>2. ~ booting[p]
  BY <1>0, <1>1 DEF PlaceGood, Saving
<1>3. IsWriter(p)' => IsWriter(p) /\ op'[p] = op[p]
  BY <1>1 DEF IsWriter, Running
<1>4. tmp # NoFile => mtime[tmp] \notin {disk_sig'[p], seen'[p], stamp'[p]}
  BY <1>0, <1>1, TmpUnseen
<1>5. pc'[p] = "act" => clients[p] = Published
  BY <1>1, UpToDateIs
<1>6. Published' = Published
  BY <1>1, SamePublished
<1>7. SaveGood(p)'
  BY <1>1 DEF SaveGood, Saving
<1>8. CopyGood(p)'
  BY <1>0, <1>1, <1>2, <1>5, <1>6 DEF CopyGood, Saving, Current
<1>9. LedgerGood'
  <2>1. ~ Busy(p) /\ ~ Busy(p)'
    BY <1>1 DEF Busy, Landed
  <2> QED BY <1>0, <1>1, <1>6, <2>1, LedgerSame
<1>10. ServerGood'
  <2>1. CASE p = Server
    <3>1. pc'[p] = "act" => asked \cap Ids(clients[p]) = {}
      BY <1>5, PublishedClean DEF Coherent, RevokedGood
    <3> QED BY <1>0, <1>1, <1>2, <2>1, <3>1 DEF ServerGood, Saving, Looked
  <2>2. CASE p # Server
    BY <1>0, <1>1, <2>2, OthersSame, ServerSame DEF Proc
  <2> QED BY <2>1, <2>2
<1> QED BY <1>0, <1>1, <1>3, <1>4, <1>7, <1>8, <1>9, <1>10, QuietStep

\* Taking the signature before reading does: the copy read can only be newer.
LEMMA LoadCoheres ==
  ASSUME Sound, Coherent, NEW p \in Proc, load(p)
  PROVE  Coherent'
<1>0. TypeOK /\ FilesGood /\ PlaceGood(p) /\ Step(p) /\ CopyGood(p) /\ ServerGood /\ SigsGood /\ LedgerGood
  BY DEF Sound, Step, Coherent
<1>1. /\ pc[p] = "load" /\ pc'[p] = (IF file = NoFile THEN "reloaded" ELSE "read") /\ booting'[p] = booting[p]
      /\ op'[p] = op[p] /\ clients'[p] = clients[p] /\ seen'[p] = seen[p]
      /\ disk_sig'[p] = (IF file = NoFile THEN NoSig ELSE disk_sig[p])
      /\ stamp'[p] = stat_sig /\ removed'[p] = FALSE
      /\ content' = content /\ mtime' = mtime /\ file' = file /\ tmp' = tmp
      /\ bearers' = bearers /\ ledger' = ledger /\ revoked' = revoked /\ asked' = asked /\ spared' = spared
  BY <1>0, LoadDoes
<1>3. IsWriter(p)' => IsWriter(p) /\ op'[p] = op[p]
  BY <1>1 DEF IsWriter, Running
<1>4. tmp # NoFile => mtime[tmp] \notin {disk_sig'[p], seen'[p], stamp'[p]}
  BY <1>0, <1>1, TmpUnseen
<1>5. file = NoFile => clients[p] = {} /\ Published = {}
  BY <1>0, <1>1 DEF CopyGood, Published
<1>6. Published' = Published
  BY <1>1, SamePublished
<1>7. SaveGood(p)'
  BY <1>1 DEF SaveGood, Saving
<1>8. CopyGood(p)'
  BY <1>0, <1>1, <1>5, <1>6 DEF CopyGood, Saving, Current
<1>9. LedgerGood'
  <2>1. ~ Busy(p) /\ ~ Busy(p)'
    BY <1>1 DEF Busy, Landed
  <2> QED BY <1>0, <1>1, <1>6, <2>1, LedgerSame
<1>10. ServerGood'
  <2>1. CASE p = Server
    <3>1. file = NoFile => asked \cap Ids(clients[p]) = {}
      BY <1>5 DEF Ids
    <3> QED BY <1>0, <1>1, <2>1, <3>1 DEF ServerGood, Saving, Looked
  <2>2. CASE p # Server
    BY <1>0, <1>1, <2>2, OthersSame, ServerSame DEF Proc
  <2> QED BY <2>1, <2>2
<1> QED BY <1>0, <1>1, <1>3, <1>4, <1>7, <1>8, <1>9, <1>10, QuietStep

\* Reading does, and a reload never has to save.
LEMMA ReadRowsCoheres ==
  ASSUME Sound, Coherent, NEW p \in Proc, read_rows(p)
  PROVE  Coherent'
<1>0. TypeOK /\ FilesGood /\ PlaceGood(p) /\ Step(p) /\ CopyGood(p) /\ ServerGood /\ SigsGood /\ LedgerGood
  BY DEF Sound, Step, Coherent
<1>1. /\ pc[p] = "read" /\ booting'[p] = booting[p]
      /\ pc'[p] = (IF Current(content[file].rows) THEN "reloaded" ELSE "open")
      /\ op'[p] = op[p] /\ clients'[p] = Kept(content[file].rows) /\ seen'[p] = seen[p]
      /\ disk_sig'[p] = stamp[p] /\ removed'[p] = RemovedBy(p, Kept(content[file].rows))
      /\ stamp'[p] = stamp[p] /\ saveFor'[p] = "reloaded"
      /\ content' = content /\ mtime' = mtime /\ file' = file /\ tmp' = tmp
      /\ bearers' = bearers /\ ledger' = ledger /\ revoked' = revoked /\ asked' = asked /\ spared' = spared
  BY <1>0, ReadRowsDoes
<1>2. file # NoFile
  BY <1>0, <1>1 DEF PlaceGood
<1>3. IsWriter(p)' <=> IsWriter(p)
  BY <1>1 DEF IsWriter, Running
<1>4. tmp # NoFile => mtime[tmp] \notin {disk_sig'[p], seen'[p], stamp'[p]}
  BY <1>0, <1>1, TmpUnseen
<1>5. clients'[p] = Published
  BY <1>1, <1>2 DEF Published
<1>6. Published' = Published
  BY <1>1, SamePublished
<1>7. pc'[p] = "open" => booting[p] /\ IsWriter(p)
  BY <1>0, <1>1, <1>2 DEF CopyGood, IsWriter, Running
<1>8. SaveGood(p)'
  <2>1. pc'[p] = "open" => clients'[p] = ledger
    BY <1>1, <1>5, <1>7, NotLanded, WriterSeesLedger
  <2> QED BY <1>1, <1>3, <1>7, <2>1 DEF SaveGood, Saving
<1>9. CopyGood(p)'
  BY <1>1, <1>2, <1>5, <1>6, <1>7 DEF CopyGood, Saving, Current
<1>10. LedgerGood'
  <2>1. ~ Busy(p) /\ ~ Busy(p)'
    BY <1>1 DEF Busy, Landed
  <2> QED BY <1>0, <1>1, <1>6, <2>1, LedgerSame
<1>11. ServerGood'
  <2>1. CASE p = Server /\ ~ booting[p]
    <3>1. asked \cap Ids(clients'[p]) = {}
      BY <1>5, PublishedClean DEF Coherent, RevokedGood
    <3>2. pc'[p] = "reloaded"
      BY <1>1, <1>7, <2>1
    <3>3. ~ removed'[p] => Ids(clients[p]) \subseteq Ids(clients'[p])
      BY <1>1 DEF RemovedBy
    <3>4. bearers \subseteq Ids(clients[p]) \cup spared
      BY <1>0, <1>1, <2>1 DEF ServerGood, Saving
    <3>5. ~ removed'[p] => bearers \subseteq Ids(clients'[p]) \cup spared
      BY <3>3, <3>4
    <3>6. Ids(clients'[p]) = Ids(clients[p])'
      BY DEF Ids
    <3> QED BY <1>1, <2>1, <3>1, <3>2, <3>5, <3>6 DEF ServerGood, Saving, Looked
  <2>2. CASE p = Server /\ booting[p]
    BY <1>1, <2>2 DEF ServerGood
  <2>3. CASE p # Server
    BY <1>0, <1>1, <2>3, OthersSame, ServerSame DEF Proc
  <2> QED BY <2>1, <2>2, <2>3
<1> QED BY <1>0, <1>1, <1>3, <1>4, <1>8, <1>9, <1>10, <1>11, QuietStep

\* The end of a reload does: the tokens of clients that are gone go too.
LEMMA ReloadedCoheres ==
  ASSUME Sound, Coherent, NEW p \in Proc, reloaded(p)
  PROVE  Coherent'
<1>0. TypeOK /\ FilesGood /\ PlaceGood(p) /\ Step(p) /\ CopyGood(p) /\ ServerGood /\ SigsGood /\ LedgerGood
  BY DEF Sound, Step, Coherent
<1>1. /\ pc[p] = "reloaded"
      /\ content' = content /\ mtime' = mtime /\ file' = file /\ tmp' = tmp
      /\ made' = made /\ ledger' = ledger /\ revoked' = revoked
  BY <1>0, ReloadedDoes
<1>2. /\ pc'[p] \in {"idle", "stat", "act"} /\ booting'[p] = FALSE /\ clients'[p] = clients[p] /\ disk_sig'[p] = disk_sig[p]
      /\ seen'[p] \in {seen[p], NoSig} /\ stamp'[p] \in {stamp[p], NoSig} /\ asked' \in {asked, {}}
      /\ pc'[p] \in {"stat", "act"} => op'[p] = op[p] /\ asked' = asked
      /\ pc'[p] = "act" => ~ booting[p]
      /\ pc'[p] = "idle" => p = Server /\ booting[p]
  <2>1. CASE p = Server /\ booting[p]
    <3>1. Leaves(p, "idle")
      BY <1>0, <2>1, ReloadedDoes
    <3>2. /\ pc'[p] = "idle" /\ booting'[p] = FALSE /\ clients'[p] = clients[p] /\ disk_sig'[p] = disk_sig[p]
          /\ seen'[p] = NoSig /\ stamp'[p] = NoSig /\ asked' = {}
      BY <1>0, <2>1, <3>1 DEF Leaves, TypeOK
    <3> QED BY <2>1, <3>2
  <2>2. CASE ~ (p = Server /\ booting[p])
    BY <1>0, <2>2, ReloadedDoes
  <2> QED BY <2>1, <2>2
<1>3. IsWriter(p)' => IsWriter(p) /\ op'[p] = op[p]
  BY <1>1, <1>2 DEF IsWriter, Running
<1>4. tmp # NoFile => mtime[tmp] \notin {disk_sig'[p], seen'[p], stamp'[p]}
  BY <1>0, <1>2, TmpUnseen
<1>6. Published' = Published
  BY <1>1, SamePublished
<1>7. SaveGood(p)'
  BY <1>2 DEF SaveGood, Saving
<1>8. CopyGood(p)'
  BY <1>0, <1>1, <1>2, <1>3, <1>6 DEF CopyGood, Saving, Current
<1>9. LedgerGood'
  <2>1. ~ Busy(p) /\ ~ Busy(p)'
    BY <1>1, <1>2 DEF Busy, Landed
  <2> QED BY <1>0, <1>1, <1>6, <2>1, LedgerSame
<1>10. ServerGood'
  <2>1. CASE p = Server
    <3>1. bearers' \subseteq Ids(clients[p]) \cup spared'
      <4>1. CASE booting[p]
        BY <2>1, <4>1 DEF reloaded
      <4>2. CASE ~ booting[p]
        <5>1. ~ removed[p] => bearers \subseteq Ids(clients[p]) \cup spared
          BY <1>0, <1>1, <2>1, <4>2 DEF ServerGood
        <5> QED BY <2>1, <4>2, <5>1 DEF reloaded, PruneDue
      <4> QED BY <4>1, <4>2
    <3>2. pc'[p] = "act" => asked' \cap Ids(clients[p]) = {}
      BY <1>0, <1>1, <1>2, <2>1 DEF ServerGood, Looked
    <3> QED BY <1>2, <2>1, <3>1, <3>2 DEF ServerGood, Saving, Looked
  <2>2. CASE p # Server
    <3>1. bearers' = bearers /\ spared' = spared /\ asked' = asked
      BY <1>2, <2>2 DEF reloaded
    <3> QED BY <1>0, <2>2, <3>1, OthersSame, ServerSame DEF Proc
  <2> QED BY <2>1, <2>2
<1> QED BY <1>0, <1>1, <1>2, <1>3, <1>4, <1>7, <1>8, <1>9, <1>10, QuietStep

-----------------------------------------------------------------------------
(* The call and the save.                                                  *)

\* What a call of the server drops: nothing, or the derived client it names.
LEMMA ServerDrops ==
  ASSUME NEW o \in Op, NEW rows \in SUBSET Row, Closed(rows), o.kind = "revoke" => o.id \in Connector
  PROVE  \A c \in Ids(rows) : c \notin Ids(Effect(o, rows)) => c = o.id
<1>1. CASE o.kind = "revoke"
  <2>1. \A r \in rows : r.id = o.id => r.owner # NoOwner
    BY <1>1, Bounds DEF Closed, RowGood
  <2>2. Cascade(rows, o.id) = {}
    BY <2>1 DEF Cascade
  <2>3. Effect(o, rows) = {r \in rows : r.id # o.id}
    BY <1>1, <2>2, EffectIs
  <2> QED BY <2>3 DEF Ids
<1>2. CASE o.kind # "revoke"
  <2>1. rows \subseteq Effect(o, rows)
    BY <1>2, EffectIs DEF Writing
  <2> QED BY <2>1 DEF Ids
<1> QED BY <1>1, <1>2

\* The call does: it starts from what is in the file.
LEMMA ActCoheres ==
  ASSUME Sound, Coherent, NEW p \in Proc, act(p)
  PROVE  Coherent'
<1>0. TypeOK /\ FilesGood /\ PlaceGood(p) /\ Step(p) /\ CopyGood(p) /\ ServerGood /\ SigsGood /\ LedgerGood
  BY DEF Sound, Step, Coherent
<1>1. PICK o \in Op, rows \in SUBSET Row : o = op[p] /\ rows = clients[p]
  BY <1>0 DEF TypeOK
<1>2. PICK new : new = Effect(o, rows)
  OBVIOUS
<1>3. /\ pc[p] = "act" /\ booting'[p] = booting[p] /\ pc'[p] = (IF new = rows THEN "finish" ELSE "open")
      /\ op'[p] = o /\ clients'[p] = new /\ seen'[p] = seen[p]
      /\ disk_sig'[p] = disk_sig[p] /\ removed'[p] = RemovedBy(p, new)
      /\ stamp'[p] = stamp[p] /\ saveFor'[p] = "finish"
      /\ content' = content /\ mtime' = mtime /\ file' = file /\ tmp' = tmp
      /\ bearers' = bearers /\ ledger' = ledger /\ revoked' = revoked /\ asked' = asked /\ spared' = spared
  BY <1>0, <1>1, <1>2, ActDoes
<1>4. ~ booting[p]
  BY <1>0, <1>3 DEF PlaceGood, Saving
<1>5. (IsWriter(p)' <=> IsWriter(p)) /\ (IsWriter(p) <=> o.kind \in Writing)
  BY <1>1, <1>3, <1>4 DEF IsWriter, Running
<1>6. tmp # NoFile => mtime[tmp] \notin {disk_sig'[p], seen'[p], stamp'[p]}
  BY <1>0, <1>3, TmpUnseen
<1>7. Published' = Published
  BY <1>3, SamePublished
<1>8. o.kind \notin Writing => new = rows
  BY <1>2, EffectIs
<1>9. IsWriter(p) => rows = Published /\ rows = ledger
  BY <1>0, <1>1, <1>3, NotLanded, WriterSeesLedger DEF CopyGood
<1>10. SaveGood(p)'
  <2>1. pc'[p] = "open" => IsWriter(p) /\ new = Effect(o, ledger)
    BY <1>2, <1>3, <1>5, <1>8, <1>9
  <2> QED BY <1>3, <1>5, <2>1 DEF SaveGood, Saving
<1>11. CopyGood(p)'
  BY <1>0, <1>1, <1>3, <1>4, <1>7 DEF CopyGood, Saving, Current
<1>12. LedgerGood'
  <2>1. ~ Busy(p) /\ (Busy(p)' => o.kind \in Writing /\ new = rows)
    BY <1>3 DEF Busy, Landed, Writes
  <2>2. CASE ~ Busy(p)'
    BY <1>0, <1>3, <1>7, <2>1, <2>2, LedgerSame
  <2>3. CASE Busy(p)'
    <3>1. IsWriter(p)
      BY <1>5, <2>1, <2>3
    <3>2. Published' = Effect(op'[p], ledger')
      BY <1>2, <1>3, <1>7, <1>9, <2>1, <2>3, <3>1
    <3>3. \A q \in Proc : q # p => ~ Busy(q)'
      BY <1>0, <3>1, AloneIs, SameIs, OthersSame
    <3> QED BY <2>3, <3>2, <3>3 DEF LedgerGood
  <2> QED BY <2>2, <2>3
<1>13. ServerGood'
  <2>1. CASE p = Server
    <3>1. asked \cap Ids(rows) = {} /\ bearers \subseteq Ids(rows) \cup spared
      BY <1>0, <1>1, <1>3, <1>4, <2>1 DEF ServerGood, Looked, Saving
    <3>2. o.kind \in {"create", "create_dynamic"} => o.id \in Client /\ o.id \notin asked
      BY <1>1, <1>5 DEF Coherent, RevokedGood, Sound, OpGood, Client, Writing
    <3>3. asked \cap Ids(new) = {}
      BY <1>2, <3>1, <3>2, EffectIds
    <3>4. Closed(rows) /\ (o.kind = "revoke" => o.id \in Connector)
      BY <1>1, <2>1 DEF Sound, RowsGood, OpGood
    <3>5. \A c \in Ids(rows) : c \notin Ids(new) => c = o.id
      BY <1>2, <3>4, ServerDrops
    <3>6. removed'[p] = ~ (Ids(rows) \subseteq Ids(new))
      BY <1>1, <1>3 DEF RemovedBy
    <3>7. removed'[p] => o.id \notin asked
      BY <3>1, <3>5, <3>6
    <3>8. bearers \subseteq Ids(new) \cup spared \cup (IF removed'[p] THEN {o.id} ELSE {})
      BY <3>1, <3>5, <3>6
    <3>9. new = rows => ~ removed'[p]
      BY <3>6
    <3>10. Ids(clients[p])' = Ids(new)
      BY <1>3 DEF Ids
    <3> QED BY <1>3, <2>1, <3>3, <3>7, <3>8, <3>10 DEF ServerGood, Looked, Saving
  <2>2. CASE p # Server
    BY <1>0, <1>3, <2>2, OthersSame, ServerSame DEF Proc
  <2> QED BY <2>1, <2>2
<1> QED BY <1>0, <1>1, <1>3, <1>5, <1>6, <1>10, <1>11, <1>12, <1>13, QuietStep

\* A step of a writer that leaves its copy, the ledger and what was asked alone.
LEMMA SaveStep ==
  ASSUME Sound, Coherent, NEW p \in Proc, Step(p), IsWriter(p), pc[p] \in Saving,
         pc'[p] \in Saving, booting'[p] = booting[p], op'[p] = op[p], clients'[p] = clients[p],
         saveFor'[p] = saveFor[p], removed'[p] = removed[p],
         bearers' = bearers, ledger' = ledger, revoked' = revoked, asked' = asked, spared' = spared
  PROVE  (IsWriter(p)' <=> IsWriter(p)) /\ OneWriter' /\ RevokedGood' /\ ServerGood'
         /\ \A q \in Proc : q # p => Same(q) /\ SaveGood(q)' /\ ~ Busy(q)' /\ ~ IsWriter(q)
<1>0. TypeOK
  BY DEF Sound
<1>1. IsWriter(p)' <=> IsWriter(p)
  BY DEF IsWriter, Running, Saving
<1>2. OneWriter' /\ RevokedGood'
  BY <1>0, <1>1, OneWriterSame, RevokedSame DEF Coherent
<1>3. \A q \in Proc : q # p => Same(q) /\ ~ Busy(q) /\ ~ IsWriter(q) /\ pc[q] \notin Saving
  BY <1>0, OthersSame, AloneIs
<1>4. \A q \in Proc : q # p => SaveGood(q)' /\ ~ Busy(q)'
  BY <1>3, SameIs, SameSave DEF Coherent
<1>5. ServerGood'
  <2>1. CASE p = Server
    BY <2>1 DEF Coherent, ServerGood, Looked, Saving
  <2>2. CASE p # Server
    BY <1>3, <2>2, ServerSame DEF Coherent, Proc
  <2> QED BY <2>1, <2>2
<1> QED BY <1>1, <1>2, <1>3, <1>4, <1>5

\* A writer's step that leaves the file alone and gives the temporary file a new
\* signature.
LEMMA TmpStep ==
  ASSUME Sound, Coherent, NEW p \in Proc, Step(p), IsWriter(p),
         NEW i \in Inode, i # file, tmp' = i, file' = file, clock' = clock + 1,
         mtime' = [mtime EXCEPT ![i] = clock + 1], \A j \in Inode : j # i => content'[j] = content[j],
         disk_sig'[p] = disk_sig[p], seen'[p] = seen[p], stamp'[p] = stamp[p]
  PROVE  /\ FileWhole' /\ SigsGood' /\ Published' = Published
         /\ \A q \in Proc : q # p => CopyGood(q)'
         /\ file # NoFile => content'[file] = content[file] /\ mtime'[file] = mtime[file]
<1>0. TypeOK /\ clock \in Nat /\ (file # NoFile => file \in Inode)
  BY Bounds DEF Sound, TypeOK
<1>1. mtime'[i] = clock + 1 /\ \A j \in Inode : j # i => mtime'[j] = mtime[j]
  BY <1>0 DEF TypeOK
<1>2. file # NoFile => content'[file] = content[file] /\ mtime'[file] = mtime[file]
  BY <1>0, <1>1
<1>3. FileWhole' /\ Published' = Published
  BY <1>2, SamePublished DEF Coherent, FileWhole
<1>4. \A q \in Proc : q # p => CopyGood(q)'
  BY <1>0, <1>2, OthersSame, SameCopy DEF Coherent
<1>5. \A q \in Proc : disk_sig'[q] = disk_sig[q] /\ seen'[q] = seen[q] /\ stamp'[q] = stamp[q]
  BY <1>0, OthersSame DEF Same
<1>6. \A q \in Proc : disk_sig[q] \in Nat /\ seen[q] \in Nat /\ stamp[q] \in Nat
                      /\ disk_sig[q] <= clock /\ seen[q] <= clock /\ stamp[q] <= clock
  BY <1>0, Bounds DEF TypeOK, Sound, SigsPast
<1>7. \A q \in Proc : mtime'[i] \notin {disk_sig'[q], seen'[q], stamp'[q]}
  BY <1>0, <1>1, <1>5, <1>6
<1>8. SigsGood'
  BY <1>7 DEF SigsGood
<1> QED BY <1>2, <1>3, <1>4, <1>8

\* Opening the temporary file does: nobody else is using it.
LEMMA SaveOpenCoheres ==
  ASSUME Sound, Coherent, NEW p \in Proc, save_open(p)
  PROVE  Coherent'
<1>0. TypeOK /\ FilesGood /\ PlaceGood(p) /\ Step(p) /\ CopyGood(p) /\ SaveGood(p) /\ LedgerGood
  BY DEF Sound, Step, Coherent
<1>1. PICK i :
         /\ i = (IF tmp = NoFile THEN FreeInode ELSE tmp) /\ pc[p] = "open" /\ pc'[p] = "write" /\ booting'[p] = booting[p]
         /\ op'[p] = op[p] /\ clients'[p] = clients[p] /\ seen'[p] = seen[p]
         /\ disk_sig'[p] = disk_sig[p] /\ removed'[p] = removed[p]
         /\ stamp'[p] = stamp[p] /\ fd'[p] = i /\ saveFor'[p] = saveFor[p]
         /\ content' = [content EXCEPT ![i] = Invalid] /\ mtime' = [mtime EXCEPT ![i] = clock + 1]
         /\ file' = file /\ tmp' = i /\ clock' = clock + 1
         /\ bearers' = bearers /\ ledger' = ledger /\ revoked' = revoked /\ asked' = asked /\ spared' = spared
  BY <1>0, SaveOpenDoes
<1>2. i \in Inode /\ i # file
  BY <1>0, <1>1, FreeIs DEF PlaceGood, FilesGood, TypeOK
<1>3. IsWriter(p) /\ pc[p] \in Saving /\ pc'[p] \in Saving
  BY <1>1, SavingWrites DEF Saving
<1>4. /\ (IsWriter(p)' <=> IsWriter(p)) /\ OneWriter' /\ RevokedGood' /\ ServerGood'
      /\ \A q \in Proc : q # p => Same(q) /\ SaveGood(q)' /\ ~ Busy(q)' /\ ~ IsWriter(q)
  BY <1>0, <1>1, <1>3, SaveStep
<1>5. content'[i] = Invalid /\ \A j \in Inode : j # i => content'[j] = content[j]
  BY <1>0, <1>1, <1>2 DEF TypeOK
<1>6. /\ FileWhole' /\ SigsGood' /\ Published' = Published /\ \A q \in Proc : q # p => CopyGood(q)'
      /\ file # NoFile => content'[file] = content[file] /\ mtime'[file] = mtime[file]
  BY <1>0, <1>1, <1>2, <1>3, <1>5, TmpStep
<1>7. SaveGood(p)'
  <2>1. i # NoFile /\ ~ content'[i].valid
    BY <1>2, <1>5, InvalidIs DEF Inode, NoFile
  <2> QED BY <1>0, <1>1, <1>3, <1>4, <2>1 DEF SaveGood, Saving
<1>8. CopyGood(p)'
  BY <1>0, <1>1, <1>6 DEF CopyGood, Saving, Current
<1>9. LedgerGood'
  <2>1. ~ Busy(p) /\ ~ Busy(p)'
    BY <1>1 DEF Busy, Landed
  <2> QED BY <1>0, <1>1, <1>6, <2>1, LedgerSame
<1> QED BY <1>4, <1>6, <1>7, <1>8, <1>9 DEF Coherent

\* Writing it does.
LEMMA SaveWriteCoheres ==
  ASSUME Sound, Coherent, NEW p \in Proc, save_write(p)
  PROVE  Coherent'
<1>0. TypeOK /\ FilesGood /\ PlaceGood(p) /\ Step(p) /\ CopyGood(p) /\ SaveGood(p) /\ LedgerGood
  BY DEF Sound, Step, Coherent
<1>1. pc[p] = "write"
  BY <1>0, SaveWriteDoes
<1>2. tmp # NoFile /\ fd[p] = tmp /\ ~ content[tmp].valid /\ tmp \in Inode /\ tmp # file
  BY <1>0, <1>1 DEF SaveGood, TypeOK, FilesGood
<1>3. /\ pc'[p] = "replace" /\ booting'[p] = booting[p]
      /\ op'[p] = op[p] /\ clients'[p] = clients[p] /\ seen'[p] = seen[p]
      /\ disk_sig'[p] = disk_sig[p] /\ removed'[p] = removed[p]
      /\ stamp'[p] = stamp[p] /\ saveFor'[p] = saveFor[p]
      /\ content' = [content EXCEPT ![tmp] = Json(clients[p])]
      /\ mtime' = [mtime EXCEPT ![tmp] = clock + 1]
      /\ file' = file /\ tmp' = tmp /\ clock' = clock + 1
      /\ bearers' = bearers /\ ledger' = ledger /\ revoked' = revoked /\ asked' = asked /\ spared' = spared
  BY <1>0, <1>2, SaveWriteDoes
<1>4. IsWriter(p) /\ pc[p] \in Saving /\ pc'[p] \in Saving
  BY <1>1, <1>3, SavingWrites DEF Saving
<1>5. /\ (IsWriter(p)' <=> IsWriter(p)) /\ OneWriter' /\ RevokedGood' /\ ServerGood'
      /\ \A q \in Proc : q # p => Same(q) /\ SaveGood(q)' /\ ~ Busy(q)' /\ ~ IsWriter(q)
  BY <1>0, <1>3, <1>4, SaveStep
<1>6. content'[tmp] = Json(clients[p]) /\ \A j \in Inode : j # tmp => content'[j] = content[j]
  BY <1>0, <1>2, <1>3 DEF TypeOK
<1>7. /\ FileWhole' /\ SigsGood' /\ Published' = Published /\ \A q \in Proc : q # p => CopyGood(q)'
      /\ file # NoFile => content'[file] = content[file] /\ mtime'[file] = mtime[file]
  <2>1. PICK i \in Inode : i = tmp
    BY <1>2
  <2> QED BY <1>0, <1>2, <1>3, <1>4, <1>6, <2>1, TmpStep
<1>8. SaveGood(p)'
  BY <1>0, <1>1, <1>2, <1>3, <1>4, <1>5, <1>6 DEF SaveGood, Saving
<1>9. CopyGood(p)'
  BY <1>0, <1>1, <1>3, <1>7 DEF CopyGood, Saving, Current
<1>10. LedgerGood'
  <2>1. ~ Busy(p) /\ ~ Busy(p)'
    BY <1>1, <1>3 DEF Busy, Landed
  <2> QED BY <1>0, <1>3, <1>7, <2>1, LedgerSame
<1> QED BY <1>5, <1>7, <1>8, <1>9, <1>10 DEF Coherent

\* Renaming does: the call is in the file, and every other copy is out of date.
LEMMA SaveReplaceCoheres ==
  ASSUME Sound, Coherent, NEW p \in Proc, save_replace(p)
  PROVE  Coherent'
<1>0. TypeOK /\ FilesGood /\ PlaceGood(p) /\ Step(p) /\ CopyGood(p) /\ SaveGood(p) /\ LedgerGood
  BY DEF Sound, Step, Coherent
<1>1. /\ pc[p] = "replace" /\ pc'[p] = "sign" /\ booting'[p] = booting[p] /\ tmp # NoFile
      /\ op'[p] = op[p] /\ clients'[p] = clients[p] /\ seen'[p] = seen[p]
      /\ disk_sig'[p] = disk_sig[p] /\ removed'[p] = removed[p]
      /\ stamp'[p] = stamp[p] /\ saveFor'[p] = saveFor[p]
      /\ content' = content /\ mtime' = mtime /\ file' = tmp /\ tmp' = NoFile
      /\ bearers' = bearers /\ ledger' = ledger /\ revoked' = revoked /\ asked' = asked /\ spared' = spared
  BY <1>0, SaveReplaceDoes
<1>2. PICK rows \in SUBSET Row : rows = clients[p] /\ Current(rows)
  BY <1>0 DEF TypeOK, Sound, RowsGood
<1>3. content'[file'] = Json(rows) /\ file' # NoFile
  BY <1>0, <1>1, <1>2 DEF SaveGood
<1>4. content'[file'].valid /\ content'[file'].rows = rows
  BY <1>3, JsonIs
<1>5. Published' = rows
  BY <1>2, <1>3, <1>4 DEF Published, Current
<1>6. IsWriter(p) /\ pc[p] \in Saving /\ pc'[p] \in Saving
  BY <1>1, SavingWrites DEF Saving
<1>7. /\ (IsWriter(p)' <=> IsWriter(p)) /\ OneWriter' /\ RevokedGood' /\ ServerGood'
      /\ \A q \in Proc : q # p => Same(q) /\ SaveGood(q)' /\ ~ Busy(q)' /\ ~ IsWriter(q)
  BY <1>0, <1>1, <1>6, SaveStep
<1>8. FileWhole' /\ SigsGood'
  BY <1>1, <1>4 DEF FileWhole, SigsGood
<1>9. Current(content[file].rows)'
  BY <1>2, <1>4 DEF Current
<1>10. SaveGood(p)'
  BY <1>1, <1>2, <1>3, <1>6, <1>7 DEF SaveGood, Saving
<1>11. CopyGood(p)'
  BY <1>1, <1>3, <1>9 DEF CopyGood, Saving
<1>12. ASSUME NEW q \in Proc, q # p
       PROVE  CopyGood(q)'
  <2>1. Same(q) /\ ~ IsWriter(q)'
    BY <1>7, <1>12, SameIs
  <2>2. disk_sig'[q] # mtime'[file']
    BY <1>0, <1>1, <2>1, TmpUnseen DEF Same, Coherent
  <2> QED BY <1>3, <1>9, <2>1, <2>2 DEF CopyGood
<1>13. LedgerGood'
  <2>1. rows = IF saveFor[p] = "finish" THEN Effect(op[p], ledger) ELSE ledger
    BY <1>0, <1>1, <1>2 DEF SaveGood
  <2>2. saveFor[p] = "finish" => Busy(p)'
    <3>1. SUFFICES ASSUME saveFor[p] = "finish"
                   PROVE  Busy(p)'
      OBVIOUS
    <3>2. ~ booting[p]
      BY <1>0, <1>1, <3>1 DEF PlaceGood, Saving
    <3>3. op[p].kind \in Writing
      BY <1>6, <3>2 DEF IsWriter
    <3> QED BY <1>1, <3>1, <3>3 DEF Busy, Landed, Writes
  <2>3. Busy(p)' => saveFor[p] = "finish"
    BY <1>1 DEF Busy, Landed
  <2>4. \A q \in Proc : Busy(q)' => q = p
    BY <1>7
  <2> QED BY <1>1, <1>5, <2>1, <2>2, <2>3, <2>4 DEF LedgerGood
<1> QED BY <1>7, <1>8, <1>10, <1>11, <1>12, <1>13 DEF Coherent

\* Recording the signature does: it is that of the file just renamed.
LEMMA SaveSignCoheres ==
  ASSUME Sound, Coherent, NEW p \in Proc, save_sign(p)
  PROVE  Coherent'
<1>0. TypeOK /\ FilesGood /\ PlaceGood(p) /\ Step(p) /\ CopyGood(p) /\ ServerGood /\ SigsGood /\ LedgerGood /\ SaveGood(p)
  BY DEF Sound, Step, Coherent
<1>1. /\ pc[p] = "sign" /\ pc'[p] = saveFor[p] /\ saveFor[p] \in {"reloaded", "finish"} /\ booting'[p] = booting[p]
      /\ op'[p] = op[p] /\ clients'[p] = clients[p] /\ seen'[p] = seen[p]
      /\ disk_sig'[p] = stat_sig /\ removed'[p] = removed[p]
      /\ stamp'[p] = stamp[p] /\ saveFor'[p] = saveFor[p]
      /\ content' = content /\ mtime' = mtime /\ file' = file /\ tmp' = tmp
      /\ bearers' = bearers /\ ledger' = ledger /\ revoked' = revoked /\ asked' = asked /\ spared' = spared
  BY <1>0, SaveSignDoes
<1>2. PICK rows \in SUBSET Row : rows = clients[p] /\ Current(rows)
  BY <1>0 DEF TypeOK, Sound, RowsGood
<1>3. file # NoFile /\ content[file].rows = rows
  BY <1>0, <1>1, <1>2, JsonIs DEF SaveGood
<1>4. Published = rows /\ Published' = Published
  BY <1>1, <1>2, <1>3, SamePublished DEF Published, Current
<1>5. IsWriter(p)' <=> IsWriter(p)
  BY <1>1 DEF IsWriter, Running
<1>6. tmp # NoFile => mtime[tmp] \notin {disk_sig'[p], seen'[p], stamp'[p]}
  BY <1>0, <1>1, TmpUnseen
<1>7. SaveGood(p)'
  BY <1>1 DEF SaveGood, Saving
<1>8. Current(content[file].rows)'
  BY <1>1, <1>2, <1>3 DEF Current
<1>9. CopyGood(p)'
  BY <1>1, <1>2, <1>3, <1>4, <1>8 DEF CopyGood
<1>10. LedgerGood'
  <2>1. Busy(p)' <=> Busy(p)
    BY <1>1 DEF Busy, Landed, Writes
  <2> QED BY <1>0, <1>1, <1>4, <2>1, LedgerSame
<1>11. ServerGood'
  <2>1. CASE p = Server
    BY <1>0, <1>1, <2>1 DEF ServerGood, Looked, Saving
  <2>2. CASE p # Server
    BY <1>0, <1>1, <2>2, OthersSame, ServerSame DEF Proc
  <2> QED BY <2>1, <2>2
<1> QED BY <1>0, <1>1, <1>5, <1>6, <1>7, <1>9, <1>10, <1>11, QuietStep

-----------------------------------------------------------------------------
(* The end of a call.                                                      *)

\* A process leaves: what it did not acknowledge and had in the file is in the
\* ledger.
LEMMA LeaveCoheres ==
  ASSUME Sound, Coherent, NEW p \in Proc, Step(p), NEW place \in {"off", "idle"}, Leaves(p, place),
         content' = content, mtime' = mtime, file' = file, tmp' = tmp,
         place = "idle" => pc[p] = "finish",
         ledger' = IF Landed(p) THEN Effect(op[p], ledger) ELSE ledger,
         revoked \subseteq revoked', revoked' \cap Ids(ledger') = {},
         revoked' = revoked \/ IsWriter(p), ServerGood'
  PROVE  Coherent'
<1>0. TypeOK /\ FilesGood /\ PlaceGood(p) /\ CopyGood(p) /\ SigsGood /\ LedgerGood
  BY DEF Sound, Coherent
<1>1. /\ pc'[p] = place /\ booting'[p] = FALSE
      /\ seen'[p] = NoSig /\ stamp'[p] = NoSig
      /\ clients'[p] = (IF place = "off" THEN {} ELSE clients[p])
      /\ disk_sig'[p] = (IF place = "off" THEN NoSig ELSE disk_sig[p])
      /\ asked' \in {asked, {}}
  BY <1>0, LeavesIs
<1>2. ~ IsWriter(p)' /\ ~ Busy(p)'
  BY <1>1 DEF IsWriter, Running, Busy, Landed
<1>3. Published' = Published
  BY SamePublished
<1>4. \A q \in Proc : q # p => Same(q)
  BY <1>0, OthersSame
<1>5. FileWhole'
  BY DEF Coherent, FileWhole
<1>6. SigsGood'
  <2>1. tmp # NoFile => mtime[tmp] \notin {disk_sig'[p], seen'[p], stamp'[p]}
    BY <1>0, <1>1, TmpUnseen
  <2> QED BY <1>0, <2>1, SigsSame
<1>7. OneWriter'
  BY <1>0, <1>2, OneWriterSame DEF Coherent
<1>8. ~ Writes(p) => ledger' = ledger
  <2>1. ~ Writes(p) => Effect(op[p], ledger) = ledger
    BY EffectIs DEF Writes
  <2> QED BY <2>1
<1>9. ~ Busy(p) => ledger' = ledger
  BY <1>8 DEF Busy
<1>10. LedgerGood'
  <2>1. CASE Busy(p)
    <3>1. Published = ledger'
      BY <1>0, <2>1 DEF LedgerGood, Busy
    <3>2. \A q \in Proc : ~ Busy(q)'
      BY <1>2, <1>4, <2>1, BusyWrites, AloneIs, SameIs
    <3> QED BY <1>3, <3>1, <3>2 DEF LedgerGood
  <2>2. CASE ~ Busy(p)
    BY <1>0, <1>2, <1>3, <1>9, <2>2, LedgerSame
  <2> QED BY <2>1, <2>2
<1>11. ASSUME NEW q \in Proc
       PROVE  SaveGood(q)' /\ CopyGood(q)'
  <2>1. CASE q = p
    <3>1. SaveGood(p)'
      BY <1>1 DEF SaveGood, Saving
    <3>2. CopyGood(p)'
      <4>1. CASE place = "off"
        BY <1>1, <1>2, <4>1 DEF CopyGood
      <4>2. CASE place = "idle"
        <5>1. pc[p] = "finish" /\ ~ booting[p]
          BY <1>0, <4>2 DEF PlaceGood, Saving
        <5> QED BY <1>0, <1>1, <1>2, <1>3, <4>2, <5>1 DEF CopyGood, Saving, Current
      <4> QED BY <4>1, <4>2
    <3> QED BY <2>1, <3>1, <3>2
  <2>2. CASE q # p
    <3>1. pc[q] \in Saving => ledger' = ledger
      BY <1>9, <2>2, BusyWrites, AloneIs
    <3> QED BY <1>4, <2>2, <3>1, SameSave, SameCopy DEF Coherent
  <2> QED BY <2>1, <2>2
<1>12. RevokedGood'
  <2>1. ASSUME NEW q \in Proc, IsWriter(q)', op'[q].kind \in {"create", "create_dynamic"}
        PROVE  op'[q].id \notin revoked'
    <3>1. q # p
      BY <1>2, <2>1
    <3>2. IsWriter(q) /\ op'[q] = op[q]
      BY <1>4, <2>1, <3>1, SameIs
    <3>3. revoked' = revoked
      BY <3>1, <3>2 DEF Coherent, OneWriter
    <3> QED BY <2>1, <3>2, <3>3 DEF Coherent, RevokedGood
  <2>2. asked' \subseteq revoked'
    BY <1>1 DEF Coherent, RevokedGood
  <2> QED BY <2>1, <2>2 DEF RevokedGood, Ids
<1> QED BY <1>5, <1>6, <1>7, <1>10, <1>11, <1>12 DEF Coherent

\* What a call in p adds to the ledger was not revoked.
LEMMA LedgerClean ==
  ASSUME Sound, Coherent, NEW p \in Proc, pc[p] \in {"sign", "finish"}
  PROVE  revoked \cap Ids(Effect(op[p], ledger)) = {}
<1>1. PICK o \in Op : o = op[p]
  BY DEF Sound, TypeOK
<1>2. o.kind \in Writing => IsWriter(p)
  BY <1>1 DEF IsWriter, Running
<1>3. o.kind \in {"create", "create_dynamic"} => o.id \in Client /\ o.id \notin revoked
  BY <1>1, <1>2 DEF Coherent, RevokedGood, Sound, OpGood, Client, Writing
<1>4. ledger \in SUBSET Row /\ revoked \cap Ids(ledger) = {}
  BY DEF Sound, TypeOK, Coherent, RevokedGood
<1> QED BY <1>1, <1>3, <1>4, EffectIds

\* A kill does, wherever it comes.
LEMMA KillCoheres ==
  ASSUME Sound, Coherent, NEW p \in Proc, kill(p)
  PROVE  Coherent'
<1>0. TypeOK /\ Step(p) /\ ServerGood
  BY DEF Sound, Coherent, Step
<1>1. /\ Leaves(p, "off") /\ content' = content /\ mtime' = mtime /\ file' = file /\ tmp' = tmp
      /\ ledger' = (IF Landed(p) THEN Effect(op[p], ledger) ELSE ledger)
      /\ revoked' = revoked /\ bearers' = bearers /\ spared' = spared
  BY DEF kill, files
<1>2. revoked' \cap Ids(ledger') = {}
  <2>1. Landed(p) => revoked \cap Ids(Effect(op[p], ledger)) = {}
    BY LedgerClean DEF Landed
  <2>2. revoked \cap Ids(ledger) = {}
    BY DEF Coherent, RevokedGood
  <2> QED BY <1>1, <2>1, <2>2
<1>3. ServerGood'
  <2>1. CASE p = Server
    <3>1. pc'[p] = "off"
      BY <1>0, <1>1, LeavesIs
    <3> QED BY <2>1, <3>1 DEF ServerGood, Looked, Saving
  <2>2. CASE p # Server
    <3>1. asked' = asked
      BY <1>1, <2>2 DEF Leaves
    <3> QED BY <1>0, <1>1, <2>2, <3>1, OthersSame, ServerSame DEF Proc
  <2> QED BY <2>1, <2>2
<1>4. PICK place \in {"off", "idle"} : place = "off"
  OBVIOUS
<1> QED BY <1>0, <1>1, <1>2, <1>3, <1>4, LeaveCoheres

\* The answer does: the ledger has the call, and what it revoked is revoked.
LEMMA FinishCoheres ==
  ASSUME Sound, Coherent, NEW p \in Proc, finish(p)
  PROVE  Coherent'
<1>0. TypeOK /\ Step(p) /\ ServerGood /\ PlaceGood(p) /\ OpGood(p)
  BY DEF Sound, Coherent, Step
<1>1. PICK o \in Op : o = op[p]
  BY <1>0 DEF TypeOK
<1>2. PICK place \in {"off", "idle"} : place = (IF p = Cli THEN "off" ELSE "idle")
  OBVIOUS
<1>3. /\ pc[p] = "finish" /\ Leaves(p, place)
      /\ content' = content /\ mtime' = mtime /\ file' = file /\ tmp' = tmp
      /\ ledger' = Effect(o, ledger) /\ spared' = spared
      /\ revoked' = IF removed[p] THEN revoked \cup {o.id} \cup Cascade(ledger, o.id) ELSE revoked
  BY <1>1, <1>2 DEF finish, files
<1>4. bearers' = IF p = Server /\ o.kind = "grant" /\ o.id \in Ids(clients[p])
                   THEN bearers \cup {o.id}
                 ELSE IF p = Server /\ removed[p] THEN bearers \ {o.id} ELSE bearers
  BY <1>1 DEF finish
<1>5. Landed(p) /\ (removed[p] => o.kind = "revoke") /\ ~ booting[p]
  BY <1>0, <1>1, <1>3 DEF PlaceGood, Landed, Saving
<1>6. revoked' \cap Ids(ledger') = {}
  <2>1. revoked \cap Ids(ledger') = {}
    BY <1>1, <1>3, LedgerClean
  <2>2. CASE removed[p]
    <3>1. ledger' = {r \in ledger : r.id \notin {o.id} \cup Cascade(ledger, o.id)}
      BY <1>3, <1>5, <2>2, EffectIs
    <3>2. ({o.id} \cup Cascade(ledger, o.id)) \cap Ids(ledger') = {}
      BY <3>1 DEF Ids
    <3> QED BY <1>3, <2>1, <2>2, <3>2
  <2>3. CASE ~ removed[p]
    BY <1>3, <2>1, <2>3
  <2> QED BY <2>2, <2>3
<1>7. revoked \subseteq revoked' /\ (revoked' = revoked \/ IsWriter(p))
  BY <1>1, <1>3, <1>5 DEF IsWriter, Running, Writing
<1>8. ServerGood'
  <2>1. CASE p = Server
    <3>1. place = "idle"
      BY <1>2, <2>1, Bounds
    <3>2. pc'[p] = "idle" /\ booting'[p] = FALSE /\ clients'[p] = clients[p]
      BY <1>0, <1>3, <3>1, LeavesIs
    <3>3. bearers \subseteq Ids(clients[p]) \cup spared \cup (IF removed[p] THEN {o.id} ELSE {})
      BY <1>0, <1>1, <1>3, <1>5, <2>1 DEF ServerGood
    <3>4. bearers' \subseteq Ids(clients[p]) \cup spared
      BY <1>4, <1>5, <2>1, <3>3
    <3>5. Ids(clients[p])' = Ids(clients[p])
      BY <3>2 DEF Ids
    <3> QED BY <1>3, <2>1, <3>2, <3>4, <3>5 DEF ServerGood, Looked, Saving
  <2>2. CASE p # Server
    <3>1. asked' = asked /\ bearers' = bearers
      BY <1>3, <1>4, <2>2 DEF Leaves
    <3> QED BY <1>0, <1>3, <2>2, <3>1, OthersSame, ServerSame DEF Proc
  <2> QED BY <2>1, <2>2
<1>9. ledger' = IF Landed(p) THEN Effect(op[p], ledger) ELSE ledger
  BY <1>1, <1>3, <1>5
<1> QED BY <1>0, <1>2, <1>3, <1>6, <1>7, <1>8, <1>9, LeaveCoheres

\* The two steps that cannot happen while one process writes at a time.
LEMMA NoTornFile ==
  ASSUME Sound, Coherent, NEW p \in Proc
  PROVE  ~ read_invalid(p) /\ ~ save_fails(p)
<1>1. ~ read_invalid(p)
  BY ReadInvalidDoes DEF Sound, Coherent, FileWhole, PlaceGood
<1>2. ~ save_fails(p)
  BY SaveFailsDoes DEF Sound, Coherent, SaveGood
<1> QED BY <1>1, <1>2

-----------------------------------------------------------------------------
(* The theorems.                                                           *)

\* Once two processes were writing at once, that stays noted.
LEMMA OverlapStays ==
  ASSUME TypeOK, NEW p \in Proc, Step(p), overlapped
  PROVE  overlapped'
<1>1. CASE start(p)
  BY <1>1, StartDoes
<1>2. CASE p = Server /\ request
  BY <1>2, RequestIs
<1>3. CASE ~ start(p) /\ ~ (p = Server /\ request)
  <2>1. overlapped' = overlapped
    BY <1>3 DEF Step, maybe_reload, load, read_rows, read_invalid, reloaded, act, save_open, save_write,
           save_replace, save_fails, save_sign, finish, kill, history
  <2> QED BY <2>1
<1> QED BY <1>1, <1>2, <1>3

\* The clients there may be at the beginning, and those of them that are kept.
LEMMA InitRows ==
  ASSUME NEW rows \in {{}} \cup {{[id |-> r, owner |-> NoOwner, seed |-> TRUE]} : r \in Root},
         NEW old \in {{}} \cup {{[id |-> r, owner |-> NoOwner, seed |-> FALSE]} : r \in Root \ Ids(rows)}
  PROVE  /\ rows \in SUBSET Row /\ old \in SUBSET Row /\ Closed(rows \cup old) /\ Kept(rows \cup old) = rows
         /\ Closed(rows) /\ Current(rows)
<1>0. NoOwner \notin Root /\ Root \subseteq Client
  BY Bounds DEF Client
<1>1. \A r \in rows \cup old : r.owner = NoOwner /\ r.id \in Root
  OBVIOUS
<1>2. \A r \in rows : r.seed
  OBVIOUS
<1>3. \A r \in old : ~ r.seed
  OBVIOUS
<1>4. rows \in SUBSET Row /\ old \in SUBSET Row
  <2>1. \A r \in Root : [id |-> r, owner |-> NoOwner, seed |-> TRUE] \in Row
    BY <1>0 DEF Row
  <2>2. rows \subseteq Row
    BY <2>1
  <2>3. \A r \in Root : [id |-> r, owner |-> NoOwner, seed |-> FALSE] \in Row
    BY <1>0 DEF Row
  <2>4. old \subseteq Row
    BY <2>3
  <2> QED BY <2>2, <2>4
<1>5. Kept(rows \cup old) = rows
  BY <1>1, <1>2, <1>3 DEF Kept, Legacy
<1>6. Closed(rows \cup old) /\ Closed(rows)
  BY <1>0, <1>1, <1>4 DEF Closed, RowGood
<1>7. Current(rows)
  BY <1>2 DEF Current, Kept, Legacy
<1> QED BY <1>4, <1>5, <1>6, <1>7

\* The invariant holds initially,
LEMMA ClientInit ==
  ASSUME Init
  PROVE  ClientGood
<1>0. PICK rows \in {{}} \cup {{[id |-> r, owner |-> NoOwner, seed |-> TRUE]} : r \in Root} :
        \E old \in {{}} \cup {{[id |-> r, owner |-> NoOwner, seed |-> FALSE]} : r \in Root \ Ids(rows)} :
        /\ content = [i \in Inode |-> IF i = 1 THEN Json(rows \cup old) ELSE Invalid]
        /\ mtime = [i \in Inode |-> IF i = 1 THEN 1 ELSE NoSig]
        /\ file = (IF rows \cup old = {} THEN NoFile ELSE 1)
        /\ made = Ids(rows \cup old) /\ ledger = rows
  BY DEF Init
<1>1. PICK old \in {{}} \cup {{[id |-> r, owner |-> NoOwner, seed |-> FALSE]} : r \in Root \ Ids(rows)} :
        /\ content = [i \in Inode |-> IF i = 1 THEN Json(rows \cup old) ELSE Invalid]
        /\ mtime = [i \in Inode |-> IF i = 1 THEN 1 ELSE NoSig]
        /\ file = (IF rows \cup old = {} THEN NoFile ELSE 1)
        /\ made = Ids(rows \cup old) /\ ledger = rows
  BY <1>0
<1>2. /\ rows \in SUBSET Row /\ old \in SUBSET Row /\ Closed(rows \cup old) /\ Kept(rows \cup old) = rows
      /\ Closed(rows) /\ Current(rows)
  BY InitRows
<1>3. /\ tmp = NoFile /\ clock = 1
      /\ \A p \in Proc : /\ pc[p] = "off" /\ op[p] = StartUp /\ booting[p] = FALSE /\ clients[p] = {}
                         /\ disk_sig[p] = NoSig /\ seen[p] = NoSig /\ stamp[p] = NoSig /\ removed[p] = FALSE
                         /\ fd[p] = NoFile /\ saveFor[p] = "finish"
      /\ bearers = {} /\ revoked = {} /\ asked = {} /\ spared = {} /\ overlapped = FALSE
  BY DEF Init
<1>4. PICK all \in SUBSET Row : all = rows \cup old
  BY <1>2
<1>5. content[1] = Json(all) /\ content[1].valid /\ content[1].rows = all /\ \A i \in Inode : i # 1 => content[i] = Invalid
  BY <1>1, <1>4, JsonIs DEF Inode
<1>6. mtime[1] = 1 /\ \A i \in Inode : i # 1 => mtime[i] = 0
  BY <1>1 DEF Inode, NoSig
<1>7. file \in {NoFile, 1} /\ (file = NoFile => all = {})
  BY <1>1, <1>4 DEF NoFile
<1>8. TypeOK
  <2>1. content \in [Inode -> Content]
    <3>1. Json(all) \in Content /\ Invalid \in Content
      BY JsonIs, InvalidIs
    <3> QED BY <1>1, <1>4, <3>1
  <2>2. mtime \in [Inode -> 0..MaxWrites] /\ clock \in 0..MaxWrites
    BY <1>1, <1>3, Bounds DEF NoSig
  <2>3. file \in Inode \cup {NoFile} /\ tmp \in Inode \cup {NoFile}
    BY <1>3, <1>7 DEF Inode
  <2>4. pc \in [Proc -> Place] /\ op \in [Proc -> Op] /\ booting \in [Proc -> BOOLEAN] /\ clients \in [Proc -> SUBSET Row]
    BY StartUpIs DEF Init, Place
  <2>5. /\ disk_sig \in [Proc -> 0..MaxWrites] /\ seen \in [Proc -> 0..MaxWrites]
        /\ stamp \in [Proc -> 0..MaxWrites] /\ removed \in [Proc -> BOOLEAN]
    BY Bounds DEF Init, NoSig
  <2>6. fd \in [Proc -> Inode \cup {NoFile}] /\ saveFor \in [Proc -> {"reloaded", "finish"}] /\ starts \in 0..MaxStarts
    BY Bounds DEF Init
  <2>7. made \subseteq Client /\ ledger \subseteq Row
    <3>1. made = Ids(all)
      BY <1>1, <1>4
    <3>2. Ids(all) \subseteq Client
      BY DEF Ids, Row
    <3> QED BY <1>1, <1>2, <3>1, <3>2
  <2> QED BY <1>3, <2>1, <2>2, <2>3, <2>4, <2>5, <2>6, <2>7 DEF TypeOK
<1>9. RowsGood
  <2>1. \A p \in Proc : Closed(clients[p]) /\ Current(clients[p])
    BY <1>3, NoneIsClosed
  <2>2. Closed(all)
    BY <1>2, <1>4
  <2>3. ASSUME NEW i \in Inode PROVE Closed(content[i].rows)
    <3>1. content[i].rows \in {all, {}}
      BY <1>5, InvalidIs
    <3> QED BY <2>2, <3>1, NoneIsClosed
  <2>4. Closed(ledger) /\ Current(ledger)
    BY <1>1, <1>2
  <2> QED BY <2>1, <2>3, <2>4 DEF RowsGood
<1>10. FilesGood
  <2>1. \A i, j \in Inode : i # j => mtime[i] # mtime[j] \/ mtime[i] = 0
    BY <1>6
  <2>2. \A i \in Inode : mtime[i] <= clock
    <3>1. TAKE i \in Inode
    <3>2. mtime[i] \in {0, 1}
      BY <1>6
    <3> QED BY <1>3, <3>2
  <2> QED BY <1>3, <1>6, <1>7, <2>1, <2>2 DEF FilesGood, NoFile
<1>11. MadeGood
  BY <1>1, <1>3 DEF MadeGood, Ids
<1>12. ASSUME NEW p \in Proc
       PROVE  OpGood(p) /\ PlaceGood(p) /\ SigsPast(p)
  <2>1. OpGood(p)
    BY <1>3, StartUpIs DEF OpGood, Writing
  <2>2. PlaceGood(p)
    BY <1>3 DEF PlaceGood, Saving
  <2>3. SigsPast(p)
    BY <1>3 DEF SigsPast, NoSig
  <2> QED BY <2>1, <2>2, <2>3
<1>13. Sound
  BY <1>8, <1>9, <1>10, <1>11, <1>12 DEF Sound
<1>14. Published = ledger
  BY <1>1, <1>2, <1>4, <1>5, <1>7 DEF Published
<1>15. \A p \in Proc : ~ IsWriter(p) /\ ~ Busy(p)
  BY <1>3 DEF IsWriter, Running, Busy, Landed
<1>16. ASSUME NEW p \in Proc
       PROVE  SaveGood(p) /\ CopyGood(p)
  BY <1>3, <1>15 DEF SaveGood, CopyGood, Saving
<1>17. FileWhole /\ SigsGood /\ OneWriter
  BY <1>3, <1>5, <1>7, <1>15 DEF FileWhole, SigsGood, OneWriter
<1>18. LedgerGood
  BY <1>14, <1>15 DEF LedgerGood
<1>19. RevokedGood
  BY <1>3, <1>15 DEF RevokedGood
<1>20. ServerGood
  <2>1. pc[Server] = "off"
    BY <1>3 DEF Proc
  <2> QED BY <2>1 DEF ServerGood, Looked, Saving
<1> QED BY <1>13, <1>16, <1>17, <1>18, <1>19, <1>20 DEF ClientGood, Coherent

\* The types,
LEMMA TypeStep ==
  ASSUME Sound, NEW p \in Proc, Step(p)
  PROVE  TypeOK'
<1>0. TypeOK /\ OpGood(p) /\ PlaceGood(p)
  BY DEF Sound
<1>1. pc[p] = "read" => file # NoFile
  BY <1>0 DEF PlaceGood
<1>2. fd[p] # NoFile => pc[p] = "write"
  BY <1>0 DEF PlaceGood
<1>3. (pc[p] = "finish" => saveFor[p] = "finish") /\ (pc[p] = "finish" /\ removed[p] => op[p].kind = "revoke")
  BY <1>0 DEF PlaceGood
<1> QED BY <1>0, <1>1, <1>2, <1>3, CallTypes, ReloadTypes, SaveTypes, EndTypes DEF Step

\* the part that holds whatever overlaps,
LEMMA SoundStep ==
  ASSUME Sound, NEW p \in Proc, Step(p)
  PROVE  Sound'
<1>0. /\ TypeOK /\ RowsGood /\ FilesGood /\ MadeGood /\ Next
      /\ (\A q \in Proc : OpGood(q) /\ PlaceGood(q)) /\ (\A q \in Proc : PlaceGood(q))
      /\ (\A q \in Proc : PlaceGood(q) /\ SigsPast(q))
  BY StepIsNext DEF Sound
<1>1. TypeOK'
  BY TypeStep
<1>2. RowsGood'
  BY <1>0, RowsStep
<1>3. FilesGood'
  BY <1>0, FilesStep
<1>4. MadeGood'
  BY <1>0, MadeStep
<1>5. \A q \in Proc : OpGood(q)'
  BY <1>0, OpStep
<1>6. \A q \in Proc : PlaceGood(q)'
  BY <1>0, PlaceStep
<1>7. \A q \in Proc : SigsPast(q)'
  BY <1>0, SigsStep
<1> QED BY <1>1, <1>2, <1>3, <1>4, <1>5, <1>6, <1>7 DEF Sound

\* and the part that holds while nothing does, are kept by every step,
LEMMA CoherentStep ==
  ASSUME Sound, Coherent, NEW p \in Proc, Step(p), ~ overlapped'
  PROVE  Coherent'
<1>1. CASE p = Server /\ request
  BY <1>1, RequestCoheres
<1>2. CASE start(p)
  BY <1>2, StartCoheres
<1>3. CASE maybe_reload(p)
  BY <1>3, MaybeReloadCoheres
<1>4. CASE load(p)
  BY <1>4, LoadCoheres
<1>5. CASE read_rows(p)
  BY <1>5, ReadRowsCoheres
<1>6. CASE reloaded(p)
  BY <1>6, ReloadedCoheres
<1>7. CASE act(p)
  BY <1>7, ActCoheres
<1>8. CASE save_open(p)
  BY <1>8, SaveOpenCoheres
<1>9. CASE save_write(p)
  BY <1>9, SaveWriteCoheres
<1>10. CASE save_replace(p)
  BY <1>10, SaveReplaceCoheres
<1>11. CASE save_sign(p)
  BY <1>11, SaveSignCoheres
<1>12. CASE finish(p)
  BY <1>12, FinishCoheres
<1>13. CASE kill(p)
  BY <1>13, KillCoheres
<1>14. CASE read_invalid(p) \/ save_fails(p)
  BY <1>14, NoTornFile
<1> QED
  BY <1>1, <1>2, <1>3, <1>4, <1>5, <1>6, <1>7, <1>8, <1>9, <1>10, <1>11, <1>12, <1>13, <1>14 DEF Step

\* hence the invariant is,
LEMMA ClientStep ==
  ASSUME ClientGood, Next
  PROVE  ClientGood'
<1>0. Sound /\ TypeOK
  BY DEF ClientGood, Sound
<1>1. PICK p \in Proc : Step(p)
  BY NextIsStep
<1>2. Sound'
  BY <1>0, <1>1, SoundStep
<1>3. overlapped' \/ Coherent'
  <2>1. CASE overlapped
    BY <1>0, <1>1, <2>1, OverlapStays
  <2>2. CASE Coherent
    BY <1>0, <1>1, <2>2, CoherentStep
  <2> QED BY <2>1, <2>2 DEF ClientGood
<1> QED BY <1>2, <1>3 DEF ClientGood

\* by stuttering steps too.
LEMMA ClientStutter ==
  ASSUME ClientGood, UNCHANGED vars
  PROVE  ClientGood'
<1>1. UNCHANGED <<content, mtime, file, tmp, clock, pc, op, booting, clients, disk_sig, seen,
          stamp, removed, fd, saveFor, bearers, made, starts, ledger, revoked, asked,
          spared, overlapped>>
  BY DEF vars
<1>2. TypeOK'
  BY <1>1 DEF ClientGood, Sound, TypeOK
<1>3. RowsGood' /\ FilesGood' /\ MadeGood'
  BY <1>1 DEF ClientGood, Sound, RowsGood, FilesGood, MadeGood, Ids
<1>4. ASSUME NEW p \in Proc
      PROVE  /\ Same(p) /\ OpGood(p)' /\ PlaceGood(p)' /\ SigsPast(p)'
             /\ (SaveGood(p) => SaveGood(p)') /\ (CopyGood(p) => CopyGood(p)')
  <2>1. Same(p)
    BY <1>1 DEF Same
  <2>2. OpGood(p)' /\ PlaceGood(p)' /\ SigsPast(p)'
    BY <1>1 DEF ClientGood, Sound, OpGood, PlaceGood, SigsPast
  <2> QED BY <1>1, <2>1, <2>2, SameSave, SameCopy
<1>5. Sound'
  BY <1>2, <1>3, <1>4 DEF Sound
<1>6. ASSUME Coherent
      PROVE  Coherent'
  <2>1. FileWhole' /\ SigsGood'
    BY <1>1, <1>6 DEF Coherent, FileWhole, SigsGood
  <2>2. \A p \in Proc : (IsWriter(p)' <=> IsWriter(p)) /\ (Busy(p)' <=> Busy(p)) /\ op'[p] = op[p]
    BY <1>4, SameIs
  <2>3. OneWriter'
    BY <1>6, <2>2 DEF Coherent, OneWriter
  <2>4. Published' = Published
    BY <1>1, SamePublished
  <2>5. LedgerGood'
    BY <1>1, <1>6, <2>2, <2>4 DEF Coherent, LedgerGood
  <2>6. RevokedGood'
    BY <1>1, <1>6, <2>2 DEF Coherent, RevokedGood, Ids
  <2>7. ServerGood'
    BY <1>1, <1>4, <1>6, ServerSame DEF Coherent, Proc
  <2>8. \A p \in Proc : SaveGood(p)' /\ CopyGood(p)'
    BY <1>4, <1>6 DEF Coherent
  <2> QED BY <2>1, <2>3, <2>5, <2>6, <2>7, <2>8 DEF Coherent
<1> QED BY <1>1, <1>5, <1>6 DEF ClientGood

\* The invariant of the client registry, for any number of clients, writes and
\* starts of the two processes.
THEOREM ClientInductive == Spec => []ClientGood
<1>1. Init => ClientGood
  BY ClientInit
<1>2. ClientGood /\ [Next]_vars => ClientGood'
  BY ClientStep, ClientStutter
<1> QED BY <1>1, <1>2, PTL DEF Spec

\* Every variable of the registry always has its type.
THEOREM ClientTypeCorrect == Spec => []TypeOK
<1>1. ClientGood => TypeOK
  BY DEF ClientGood, Sound
<1> QED BY <1>1, ClientInductive, PTL

\* Acknowledged creations and deletions are durable: unless two processes were
\* ever writing at once, clients.json is whole and holds exactly what they amount to,
\* wherever a process was killed (_save renames a temporary file over it).
THEOREM AcknowledgedIsInTheFile == Spec => []FileIsLedger
<1>1. ASSUME ClientGood
      PROVE  FileIsLedger
  <2>1. SUFFICES ASSUME ~ overlapped, file # NoFile
                 PROVE  /\ content[file].valid
                        /\ \/ Quiet /\ Kept(content[file].rows) = ledger
                           \/ \E p \in Proc : Landed(p) /\ Kept(content[file].rows) = Effect(op[p], ledger)
    BY DEF FileIsLedger
  <2>2. Coherent
    BY <1>1, <2>1 DEF ClientGood
  <2>3. content[file].valid
    BY <2>1, <2>2 DEF Coherent, FileWhole
  <2>4. Published = Kept(content[file].rows)
    BY <2>1 DEF Published
  <2>5. CASE \E p \in Proc : Busy(p)
    BY <2>2, <2>3, <2>4, <2>5 DEF Coherent, LedgerGood, Busy
  <2>6. CASE \A p \in Proc : ~ Busy(p)
    <3>1. Published = ledger
      BY <2>2, <2>6 DEF Coherent, LedgerGood
    <3>2. CASE Quiet
      BY <2>3, <2>4, <3>1, <3>2
    <3>3. CASE ~ Quiet
      <4>1. PICK p \in Proc : Landed(p)
        BY <3>3 DEF Quiet
      <4>2. op[p].kind \notin Writing
        BY <2>6, <4>1 DEF Busy, Writes
      <4>3. Effect(op[p], ledger) = ledger
        BY <4>2, EffectIs
      <4> QED BY <2>3, <2>4, <3>1, <4>1, <4>3
    <3> QED BY <3>2, <3>3
  <2> QED BY <2>5, <2>6
<1> QED BY <1>1, ClientInductive, PTL

\* _maybe_reload may skip the read when the signature is the recorded one: the
\* clients in memory are then those in the file.
THEOREM SkippingTheReloadIsRight == Spec => []CopyIsCurrent
<1>1. ASSUME ClientGood
      PROVE  CopyIsCurrent
  <2>1. SUFFICES ASSUME NEW p \in Proc, ~ overlapped, pc[p] \in {"idle", "stat", "act"}, file # NoFile, disk_sig[p] = stat_sig
                 PROVE  clients[p] = Kept(content[file].rows)
    BY DEF CopyIsCurrent
  <2>2. CopyGood(p) /\ TypeOK
    BY <1>1, <2>1 DEF ClientGood, Coherent, Sound
  <2>3. disk_sig[p] = mtime[file] /\ Published = Kept(content[file].rows)
    BY <2>1, <2>2, StatIs DEF Published
  <2> QED BY <2>1, <2>2, <2>3 DEF CopyGood, Saving
<1> QED BY <1>1, ClientInductive, PTL

\* A request that began after a revocation was acknowledged finds neither the
\* client nor its derived clients, and their tokens are gone but for those that a
\* start spared because it found no client at all.
THEOREM RevokedClientsAreCutOff == Spec => []RevokedCutOff
<1>1. ASSUME ClientGood
      PROVE  RevokedCutOff
  <2>1. SUFFICES ASSUME ~ overlapped, pc[Server] = "finish"
                 PROVE  asked \cap Ids(clients[Server]) = {} /\ asked \cap bearers \subseteq spared
    BY DEF RevokedCutOff
  <2>2. ServerGood /\ PlaceGood(Server)
    BY <1>1, <2>1 DEF ClientGood, Coherent, Sound, Proc
  <2>3. ~ booting[Server]
    BY <2>1, <2>2 DEF PlaceGood, Saving
  <2>4. /\ asked \cap Ids(clients[Server]) = {}
        /\ removed[Server] => op[Server].id \notin asked
        /\ bearers \subseteq Ids(clients[Server]) \cup spared \cup (IF removed[Server] THEN {op[Server].id} ELSE {})
    BY <2>1, <2>2, <2>3 DEF ServerGood, Looked
  <2> QED BY <2>4
<1> QED BY <1>1, ClientInductive, PTL

\* No copy and no state of the file has a derived client without the root client
\* it delegates TOTP to, even when processes write at once.
THEOREM OwnersStay == Spec => []OwnerPresent
<1>1. ASSUME ClientGood
      PROVE  OwnerPresent
  <2>1. ASSUME NEW rows \in RowSets
        PROVE  Closed(rows)
    <3>1. TypeOK /\ RowsGood
      BY <1>1 DEF ClientGood, Sound
    <3> QED BY <2>1, <3>1 DEF RowSets, RowsGood, TypeOK
  <2> QED BY <2>1 DEF OwnerPresent, Closed, Ids
<1> QED BY <1>1, ClientInductive, PTL
=============================================================================
