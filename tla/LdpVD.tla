-------------------------------- MODULE LdpVD --------------------------------
(***************************************************************************)
(* Controlled versioned data: lib/ldp_VD.c with the access managers of     *)
(* lib/ldp_VD_reader_manager.c and lib/ldp_VD_writter_manager.c.           *)
(*                                                                         *)
(* A repository has a few copies of the data; repository_ptr designates    *)
(* the one published last.  A writer takes a free copy, fills it without   *)
(* any lock, and publishes it by moving the pointer; a reader copies the   *)
(* published one, also without a lock, after it has counted itself as a    *)
(* reader of it.  A publication in the "source" repository is notified to  *)
(* its readers: here, modules that read it and a "mirror" repository,      *)
(* which the publishing thread updates.                                    *)
(*                                                                         *)
(* A memcpy is not atomic: it takes two actions, and what it copies is     *)
(* Torn when its source changed in between.  Every other critical section, *)
(* and every access made outside of one, is one action.                    *)
(***************************************************************************)
EXTENDS Integers, FiniteSets

CONSTANTS
  Writer,      \* the written accesses, of threads that may run at once
  Reader,      \* the read accesses
  ReadsFrom,   \* ReadsFrom[x]: the repository of reader x
  Copy,        \* the copies of both repositories
  RepoOf,      \* RepoOf[c]: the repository of copy c
  NoCopy,      \* the NULL pointer
  ReadWrite,   \* the writers in READ_WRITE mode
  MaxVersion   \* bound: the versions that writers write

Repo == {"source", "mirror"}
Version == 1 .. MaxVersion
NoVersion == 0
Torn == -1

ASSUME VDAssumption ==
  /\ MaxVersion \in Nat
  /\ ReadsFrom \in [Reader -> Repo]
  /\ RepoOf \in [Copy -> Repo] /\ IsFiniteSet(Copy)
  /\ NoCopy \notin Copy
  /\ ReadWrite \subseteq Writer
  /\ IsFiniteSet(Reader) /\ IsFiniteSet(Writer)

VARIABLES
  state, num_readers, to_be_release, data,  \* per copy: VD_copies
  repository_ptr,                           \* per repository
  wpc, wcopy, wsrc, wbuf, mcopy,  \* per writer: step, copy held, memcpy, mirror copy
  rpc, rsrc, rbuf,                \* per reader: step, copy read, its local copy
  version                         \* the versions written so far

copyVars == <<state, num_readers, to_be_release, data>>
writerVars == <<wpc, wcopy, wsrc, wbuf, mcopy>>
readerVars == <<rpc, rsrc, rbuf>>
vars == <<copyVars, repository_ptr, writerVars, readerVars, version>>

(* ldp_init_repository, ldp_init_reader_mng, ldp_init_writter_mng. *)
Init ==
  /\ state = [c \in Copy |-> "FREE"]
  /\ num_readers = [c \in Copy |-> 0]
  /\ to_be_release = [c \in Copy |-> FALSE]
  /\ data = [c \in Copy |-> NoVersion]
  /\ repository_ptr = [r \in Repo |-> NoCopy]
  /\ wpc = [w \in Writer |-> "idle"]
  /\ wcopy = [w \in Writer |-> NoCopy]
  /\ wsrc = [w \in Writer |-> NoCopy]
  /\ wbuf = [w \in Writer |-> NoVersion]
  /\ mcopy = [w \in Writer |-> NoCopy]
  /\ rpc = [x \in Reader |-> "idle"]
  /\ rsrc = [x \in Reader |-> NoCopy]
  /\ rbuf = [x \in Reader |-> NoVersion]
  /\ version = 0
-----------------------------------------------------------------------------
(* The operations on a repository, made under its mutex.                   *)

(* ldp_get_written_VD_copy.  Its content is not that of a version yet. *)
FreeCopies(r) == {c \in Copy : RepoOf[c] = r /\ state[c] = "FREE"}
Taken(c) ==
  /\ state' = [state EXCEPT ![c] = "USED"]
  /\ data' = [data EXCEPT ![c] = Torn]

(* ldp_move_repository_ptr: the former copy is freed unless somebody reads  *)
(* it (and, as a slip, without looking).                                    *)
Unread_Any(c) == c # NoCopy
Unread(c) == c # NoCopy /\ num_readers[c] = 0
MovePtr(r, c) ==
  LET old == repository_ptr[r] IN
  /\ state' = IF Unread(old) THEN [state EXCEPT ![old] = "FREE"] ELSE state
  /\ to_be_release' = IF old # NoCopy /\ ~Unread(old)
                      THEN [to_be_release EXCEPT ![old] = TRUE] ELSE to_be_release
  /\ repository_ptr' = [repository_ptr EXCEPT ![r] = c]

(* ldp_release_written_VD_copy: the last reader of a replaced copy frees it *)
(* (and, as a slip, the one after the last).                                *)
LastReader_Zero(c) == to_be_release[c] /\ num_readers[c] = 0
LastReader(c) == to_be_release[c] /\ num_readers[c] = 1
ReleaseCopy(c) ==
  IF LastReader(c)
  THEN /\ state' = [state EXCEPT ![c] = "FREE"]
       /\ to_be_release' = [to_be_release EXCEPT ![c] = FALSE]
       /\ num_readers' = [num_readers EXCEPT ![c] = 0]
  ELSE /\ num_readers' = [num_readers EXCEPT ![c] = @ - 1]
       /\ UNCHANGED <<state, to_be_release>>

(* A memcpy that began when its source held v ends. *)
Copied(c, v) == IF data[c] = v THEN v ELSE Torn
-----------------------------------------------------------------------------
(* Writers.                                                                *)

Goto(w, step) == wpc' = [wpc EXCEPT ![w] = step]

(* The locals of a memcpy go out of scope. *)
Forget(w) ==
  /\ wsrc' = [wsrc EXCEPT ![w] = NoCopy]
  /\ wbuf' = [wbuf EXCEPT ![w] = NoVersion]

(* ldp_get_written_access; RESOURCE_NOT_AVAILABLE changes nothing. *)
GetWritten(w) ==
  LET src == repository_ptr["source"] IN
  /\ wpc[w] = "idle"
  /\ \E c \in FreeCopies("source") :
       /\ Taken(c)
       /\ wcopy' = [wcopy EXCEPT ![w] = c]
  /\ IF w \in ReadWrite /\ src # NoCopy
     THEN /\ num_readers' = [num_readers EXCEPT ![src] = @ + 1]
          /\ wsrc' = [wsrc EXCEPT ![w] = src]
          /\ wbuf' = [wbuf EXCEPT ![w] = data[src]]
          /\ Goto(w, "copying")
     ELSE /\ Goto(w, "holding")
          /\ UNCHANGED <<num_readers, wsrc, wbuf>>
  /\ UNCHANGED <<to_be_release, repository_ptr, mcopy, readerVars, version>>

CopyEnd(w) ==
  /\ wpc[w] = "copying"
  /\ data' = [data EXCEPT ![wcopy[w]] = Copied(wsrc[w], wbuf[w])]
  /\ Goto(w, "copied")
  /\ UNCHANGED <<state, num_readers, to_be_release, repository_ptr, wcopy, wsrc, wbuf,
                 mcopy, readerVars, version>>

CopyRelease(w) ==
  /\ wpc[w] = "copied"
  /\ ReleaseCopy(wsrc[w])
  /\ Forget(w)
  /\ Goto(w, "holding")
  /\ UNCHANGED <<data, repository_ptr, wcopy, mcopy, readerVars, version>>

(* The module fills the copy through its handle. *)
Write(w) ==
  /\ wpc[w] = "holding" /\ version < MaxVersion
  /\ version' = version + 1
  /\ data' = [data EXCEPT ![wcopy[w]] = version + 1]
  /\ Goto(w, "written")
  /\ UNCHANGED <<state, num_readers, to_be_release, repository_ptr, wcopy, wsrc, wbuf,
                 mcopy, readerVars>>

(* ldp_cancel_written_access, without the mutex. *)
Cancel(w) ==
  /\ wpc[w] \in {"holding", "written"}
  /\ state' = [state EXCEPT ![wcopy[w]] = "FREE"]
  /\ wcopy' = [wcopy EXCEPT ![w] = NoCopy]
  /\ Goto(w, "idle")
  /\ UNCHANGED <<num_readers, to_be_release, data, repository_ptr, wsrc, wbuf, mcopy,
                 readerVars, version>>

(* ldp_publish_written_access: the writer counts as a reader of its copy    *)
(* while it notifies.                                                       *)
Publish(w) ==
  /\ wpc[w] = "written"
  /\ MovePtr("source", wcopy[w])
  /\ num_readers' = [num_readers EXCEPT ![wcopy[w]] = @ + 1]
  /\ Goto(w, "notify")
  /\ UNCHANGED <<data, wcopy, wsrc, wbuf, mcopy, readerVars, version>>

(* ldp_notify_local_readers reads repository_ptr without the mutex. *)
Notify(w) ==
  /\ wpc[w] = "notify"
  /\ wsrc' = [wsrc EXCEPT ![w] = repository_ptr["source"]]
  /\ Goto(w, "update")
  /\ UNCHANGED <<copyVars, repository_ptr, wcopy, wbuf, mcopy, readerVars, version>>

(* ldp_update_repository on the mirror. *)
UpdateBegin(w) ==
  /\ wpc[w] = "update"
  /\ \/ /\ FreeCopies("mirror") = {}
        /\ Goto(w, "end")
        /\ UNCHANGED <<state, data, mcopy, wbuf>>
     \/ /\ \E c \in FreeCopies("mirror") :
             /\ Taken(c)
             /\ mcopy' = [mcopy EXCEPT ![w] = c]
        /\ wbuf' = [wbuf EXCEPT ![w] = data[wsrc[w]]]
        /\ Goto(w, "updating")
  /\ UNCHANGED <<num_readers, to_be_release, repository_ptr, wcopy, wsrc, readerVars, version>>

UpdateEnd(w) ==
  /\ wpc[w] = "updating"
  /\ data' = [data EXCEPT ![mcopy[w]] = Copied(wsrc[w], wbuf[w])]
  /\ Goto(w, "updated")
  /\ UNCHANGED <<state, num_readers, to_be_release, repository_ptr, wcopy, wsrc, wbuf,
                 mcopy, readerVars, version>>

UpdateMove(w) ==
  /\ wpc[w] = "updated"
  /\ MovePtr("mirror", mcopy[w])
  /\ mcopy' = [mcopy EXCEPT ![w] = NoCopy]
  /\ Goto(w, "end")
  /\ UNCHANGED <<num_readers, data, wcopy, wsrc, wbuf, readerVars, version>>

(* The end of ldp_publish_written_access. *)
PublishEnd(w) ==
  /\ wpc[w] = "end"
  /\ ReleaseCopy(wcopy[w])
  /\ wcopy' = [wcopy EXCEPT ![w] = NoCopy]
  /\ Forget(w)
  /\ Goto(w, "idle")
  /\ UNCHANGED <<data, repository_ptr, mcopy, readerVars, version>>
-----------------------------------------------------------------------------
(* Readers.  Serialising a copy for a socket takes the same steps.         *)

RGoto(x, step) == rpc' = [rpc EXCEPT ![x] = step]

(* ldp_get_read_access; before the first publication it returns NO_DATA.    *)
ReadBegin(x) ==
  LET src == repository_ptr[ReadsFrom[x]] IN
  /\ rpc[x] = "idle"
  /\ src # NoCopy
  /\ num_readers' = [num_readers EXCEPT ![src] = @ + 1]
  /\ rsrc' = [rsrc EXCEPT ![x] = src]
  /\ rbuf' = [rbuf EXCEPT ![x] = data[src]]
  /\ RGoto(x, "copying")
  /\ UNCHANGED <<state, to_be_release, data, repository_ptr, writerVars, version>>

ReadEnd(x) ==
  /\ rpc[x] = "copying"
  /\ rbuf' = [rbuf EXCEPT ![x] = Copied(rsrc[x], rbuf[x])]
  /\ RGoto(x, "copied")
  /\ UNCHANGED <<copyVars, repository_ptr, writerVars, rsrc, version>>

ReadRelease(x) ==
  /\ rpc[x] = "copied"
  /\ ReleaseCopy(rsrc[x])
  /\ rsrc' = [rsrc EXCEPT ![x] = NoCopy]
  /\ RGoto(x, "reading")
  /\ UNCHANGED <<data, repository_ptr, writerVars, rbuf, version>>

(* ldp_release_read_access. *)
ReleaseRead(x) ==
  /\ rpc[x] = "reading"
  /\ rbuf' = [rbuf EXCEPT ![x] = NoVersion]
  /\ RGoto(x, "idle")
  /\ UNCHANGED <<copyVars, repository_ptr, writerVars, rsrc, version>>

Access(w) ==
  \/ GetWritten(w) \/ CopyEnd(w) \/ CopyRelease(w) \/ Write(w) \/ Cancel(w)
PublishAccess(w) ==
  \/ Publish(w) \/ Notify(w) \/ UpdateBegin(w) \/ UpdateEnd(w) \/ UpdateMove(w)
  \/ PublishEnd(w)
Read(x) == ReadBegin(x) \/ ReadEnd(x) \/ ReadRelease(x) \/ ReleaseRead(x)

Next ==
  \/ \E w \in Writer : Access(w) \/ PublishAccess(w)
  \/ \E x \in Reader : Read(x)

Spec == Init /\ [][Next]_vars
-----------------------------------------------------------------------------
(* Type correctness. *)
TypeOK ==
  /\ state \in [Copy -> {"FREE", "USED"}]
  /\ num_readers \in [Copy -> Nat]
  /\ to_be_release \in [Copy -> BOOLEAN]
  /\ data \in [Copy -> Version \cup {NoVersion, Torn}]
  /\ repository_ptr \in [Repo -> Copy \cup {NoCopy}]
  /\ wpc \in [Writer -> {"idle", "copying", "copied", "holding", "written", "notify",
                         "update", "updating", "updated", "end"}]
  /\ wcopy \in [Writer -> Copy \cup {NoCopy}]
  /\ wsrc \in [Writer -> Copy \cup {NoCopy}]
  /\ wbuf \in [Writer -> Version \cup {NoVersion, Torn}]
  /\ mcopy \in [Writer -> Copy \cup {NoCopy}]
  /\ rpc \in [Reader -> {"idle", "copying", "copied", "reading"}]
  /\ rsrc \in [Reader -> Copy \cup {NoCopy}]
  /\ rbuf \in [Reader -> Version \cup {NoVersion, Torn}]
  /\ version \in 0 .. MaxVersion

Publishing(w) == wpc[w] \in {"notify", "update", "updating", "updated", "end"}

(* Whoever has counted itself as a reader of copy c. *)
ReadersOf(c) ==
  {x \in Reader : rpc[x] \in {"copying", "copied"} /\ rsrc[x] = c}
WritersReading(c) ==
  {w \in Writer : \/ wpc[w] \in {"copying", "copied"} /\ wsrc[w] = c
                  \/ Publishing(w) /\ wcopy[w] = c}

(* num_readers is exact at every copy, published, replaced or free: each    *)
(* increment, made by one of three functions, is taken back once.           *)
ReadersCounted ==
  \A c \in Copy :
    num_readers[c] = Cardinality(ReadersOf(c)) + Cardinality(WritersReading(c))

(* Who needs copy c: the pointer, a writer that fills it, whoever reads it. *)
Held(c) ==
  \/ repository_ptr[RepoOf[c]] = c
  \/ \E w \in Writer : wcopy[w] = c /\ ~Publishing(w)
  \/ \E w \in Writer : mcopy[w] = c
  \/ ReadersOf(c) # {} \/ WritersReading(c) # {}

(* A copy is used exactly as long as somebody needs it: none is handed to a *)
(* writer while it is published or being read, and none is lost, which      *)
(* would leave the writers without copies in the end.                       *)
UsedIsHeld == \A c \in Copy : (state[c] = "USED") = Held(c)

(* Two writers never hold the same copy. *)
OneWriter ==
  \A v, w \in Writer : v # w => wcopy[v] = NoCopy \/ wcopy[v] # wcopy[w]

(* "normal behaviour of VD: reader/writter can access VD safety": to the    *)
(* readers of the source the repository is a register.  A read takes effect *)
(* when the reader counts itself, and gives what was published then, whole. *)
SourceReader == {x \in Reader : ReadsFrom[x] = "source"}
Seen(x) ==
  IF rpc[x] = "copying" THEN Copied(rsrc[x], rbuf[x]) ELSE rbuf[x]

Register == INSTANCE VersionedRegister WITH
  Reader <- SourceReader,
  value <- IF repository_ptr["source"] = NoCopy THEN NoVersion
           ELSE data[repository_ptr["source"]],
  seen <- [x \in SourceReader |-> Seen(x)]

ImplementsRegister == Register!Spec

(* ldp_publish_written_access: "add a reader to make data available during  *)
(* notifying".  So what the mirror copies is a version, not a copy that a   *)
(* writer is filling again.                                                 *)
MirrorIsWhole ==
  repository_ptr["mirror"] # NoCopy => data[repository_ptr["mirror"]] \in Version
=============================================================================
