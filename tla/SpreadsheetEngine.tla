------------------------- MODULE SpreadsheetEngine -------------------------
(***************************************************************************)
(* tenforty/oracle/engine.py: SpreadsheetEngine.compute, called by several *)
(* threads of several processes.  A compute copies a template workbook     *)
(* into its work directory, writes its inputs there, has LibreOffice       *)
(* recalculate the copy into <work_dir>/recalculated/ under a lock of the  *)
(* process, reads the answers back, and may keep them in a cache shared by *)
(* every process of the user.                                              *)
(*                                                                         *)
(* An answer is identified with the workbook it was recalculated from: the *)
(* template, and the requests whose inputs were written on it.  The answer *)
(* of r is right iff that workbook is r's template with r's inputs alone.  *)
(*                                                                         *)
(* Every workbook the engine is given is called 1040.xlsx, so a work       *)
(* directory holds one working copy and one recalculated file.             *)
(***************************************************************************)
EXTENDS Naturals

CONSTANTS
  Callers,          \* threads that call compute()
  Processes,        \* the operating system processes they run in
  Dirs,             \* work directories
  Requests,         \* argument lists of compute(), in insertion order
  Keys,             \* cache keys (sha256 values)
  Templates,        \* template workbooks, by content
  ProcessOf,        \* [Callers -> Processes]
  DirOf,            \* [Callers -> Dirs]: the work_dir each caller passes
  TemplateOf,       \* [Requests -> Templates]
  KeyOf,            \* [Requests -> Keys]: _cache_key, which sorts the inputs
  Ambiguous,        \* requests two of whose inputs are written to one cell
  Unresolvable,     \* requests with an input no cell can be found for
  Unreproducible,   \* requests whose answer JSON does not give back (NaN, dates)
  Caching,          \* TENFORTY_ORACLE_CACHE = "1"
  StaleSilentExit,  \* may soffice exit 0, writing nothing, over an older output?
  Absent, Empty, Torn,           \* a missing, a zero-byte and an unreadable file
  Free, NoRequest, NoEntry

Cacheable == Requests \ (Ambiguous \cup Unresolvable)

Books == [template : Templates, inputs : SUBSET Requests]

Blank(r) == [template |-> TemplateOf[r], inputs |-> {}]
Own(r)   == [template |-> TemplateOf[r], inputs |-> {r}]

ASSUME ShapeAssumption ==
  /\ ProcessOf \in [Callers -> Processes]
  /\ DirOf \in [Callers -> Dirs]
  /\ TemplateOf \in [Requests -> Templates]
  /\ KeyOf \in [Requests -> Keys]
  /\ Ambiguous \subseteq Requests
  /\ Unresolvable \subseteq Requests
  /\ Unreproducible \subseteq Requests
  /\ Caching \in BOOLEAN
  /\ StaleSilentExit \in BOOLEAN

ASSUME NullAssumption ==
  /\ Absent \notin Books /\ Empty \notin Books /\ Torn \notin Books
  /\ Absent # Empty /\ Absent # Torn /\ Empty # Torn
  /\ Free \notin Callers
  /\ NoRequest \notin Requests
  /\ NoEntry \notin Keys

\* "The key is the contract": requests that may be cached have a key of their
\* own; it sorts the inputs, so requests that must bypass the cache may not.
ASSUME KeyAssumption ==
  \A r, s \in Cacheable : KeyOf[r] = KeyOf[s] => r = s

VARIABLES
  pc,            \* [Callers -> where compute() is]
  req,           \* [Callers -> the request in hand]
  entry,         \* [Callers -> the cache entry this compute may use, or NoEntry]
  held,          \* [Callers -> the workbook in memory: loaded, converting, read]
  silent,        \* [Callers -> did this compute's soffice exit 0 writing nothing?]
  lock,          \* [Processes -> Callers \cup {Free}]: _SOFFICE_LOCK
  version,       \* [Processes -> the memo of _soffice_version()]
  working,       \* [Dirs -> <work_dir>/1040.xlsx]
  recalculated,  \* [Dirs -> <work_dir>/recalculated/1040.xlsx]
  cache          \* [Keys -> <cache_dir>/<key>.json]

vars == <<pc, req, entry, held, silent, lock, version,
          working, recalculated, cache>>

Busy == {"probe", "version", "key", "prepare", "load", "save", "wait", "soffice",
         "check", "read", "store"}
PC   == Busy \cup {"idle", "returned", "raised"}

TypeOK ==
  /\ pc \in [Callers -> PC]
  /\ req \in [Callers -> Requests \cup {NoRequest}]
  /\ \A c \in Callers : pc[c] # "idle" => req[c] \in Requests
  /\ entry \in [Callers -> Keys \cup {NoEntry}]
  /\ held \in [Callers -> Books \cup {Absent, Torn}]
  /\ \A c \in Callers : pc[c] \in {"save", "store", "returned"} => held[c] \in Books
  /\ silent \in [Callers -> BOOLEAN]
  /\ lock \in [Processes -> Callers \cup {Free}]
  /\ version \in [Processes -> {"unprobed", "known", "unknown"}]
  /\ working \in [Dirs -> Books \cup {Absent, Torn}]
  /\ recalculated \in [Dirs -> Books \cup {Absent, Empty, Torn}]
  /\ cache \in [Keys -> Books \cup {Absent, Torn}]

Init ==
  /\ pc           = [c \in Callers |-> "idle"]
  /\ req          = [c \in Callers |-> NoRequest]
  /\ entry        = [c \in Callers |-> NoEntry]
  /\ held         = [c \in Callers |-> Absent]
  /\ silent       = [c \in Callers |-> FALSE]
  /\ lock         = [p \in Processes |-> Free]
  /\ version      = [p \in Processes |-> "unprobed"]
  /\ working      = [d \in Dirs |-> Absent]
  /\ recalculated = [d \in Dirs |-> Absent]
  /\ cache        = [k \in Keys |-> Absent]

----------------------------------------------------------------------------
(* Steps of one caller.                                                    *)

Goto(c, to) == pc' = [pc EXCEPT ![c] = to]

Hold(c, book) == held' = [held EXCEPT ![c] = book]

\* compute() raises: the exception leaves the engine, nothing is returned.
Raise(c) == Goto(c, "raised") /\ Hold(c, Absent)

\* Mutant: inputs that share a cell are cached like any others.
BypassesUnresolvable(r) == ~Caching \/ r \in Unresolvable

\* The requests whose compute skips the cache: caching off, or
\* _inputs_share_a_cell (True as well when a cell cannot be resolved).
Bypasses(r) == ~Caching \/ r \in Ambiguous \cup Unresolvable

\* Mutant: the caller's previous request is not replaced.
BeginKeepsRequest(c, r) ==
  /\ pc[c] \notin Busy
  /\ entry'  = [entry EXCEPT ![c] = NoEntry]
  /\ silent' = [silent EXCEPT ![c] = FALSE]
  /\ Hold(c, Absent)
  /\ Goto(c, IF Bypasses(r) THEN "prepare" ELSE "probe")
  /\ UNCHANGED <<req, lock, version, working, recalculated, cache>>

Begin(c, r) ==
  /\ pc[c] \notin Busy
  /\ req'    = [req EXCEPT ![c] = r]
  /\ entry'  = [entry EXCEPT ![c] = NoEntry]
  /\ silent' = [silent EXCEPT ![c] = FALSE]
  /\ Hold(c, Absent)
  /\ Goto(c, IF Bypasses(r) THEN "prepare" ELSE "probe")
  /\ UNCHANGED <<lock, version, working, recalculated, cache>>

\* _soffice_version is memoised by functools.cache, which takes no lock: every
\* caller that misses probes for itself.
MissVersion(c) ==
  /\ pc[c] = "probe"
  /\ version[ProcessOf[c]] = "unprobed"
  /\ Goto(c, "version")
  /\ UNCHANGED <<req, entry, held, silent, lock, version, working, recalculated, cache>>

\* The probe, under the lock and of bounded time; a failed one is memoised
\* too.  The caller goes on by its own outcome, the memo keeps the last.
ProbeVersion(c) ==
  LET p == ProcessOf[c] IN
  /\ pc[c] = "version"
  /\ lock[p] = Free
  /\ \/ version' = [version EXCEPT ![p] = "known"] /\ Goto(c, "key")
     \/ version' = [version EXCEPT ![p] = "unknown"] /\ Goto(c, "prepare")
  /\ UNCHANGED <<req, entry, held, silent, lock, working, recalculated, cache>>

\* _cache_entry is None: the compute goes on without the cache.
NoCacheEntry(c) ==
  /\ pc[c] = "probe"
  /\ version[ProcessOf[c]] = "unknown"
  /\ Goto(c, "prepare")
  /\ UNCHANGED <<req, entry, held, silent, lock, version, working, recalculated, cache>>

\* A hit returns the stored answer; a missing or damaged entry is a miss.
LookUp(c) ==
  LET k == KeyOf[req[c]] IN
  /\ pc[c] = "key" \/ (pc[c] = "probe" /\ version[ProcessOf[c]] = "known")
  /\ entry' = [entry EXCEPT ![c] = k]
  /\ \/ /\ cache[k] \in Books
        /\ Hold(c, cache[k])
        /\ Goto(c, "returned")
     \/ /\ cache[k] \notin Books
        /\ Goto(c, "prepare")
        /\ UNCHANGED held
  /\ UNCHANGED <<req, silent, lock, version, working, recalculated, cache>>

\* Mutant: an existing working copy is written on instead of replaced.
CopyTemplateOnce(c) ==
  /\ pc[c] = "prepare"
  /\ working' = [working EXCEPT ![DirOf[c]] = IF @ \in Books THEN @ ELSE Blank(req[c])]
  /\ Goto(c, "load")
  /\ UNCHANGED <<req, entry, held, silent, lock, version, recalculated, cache>>

\* shutil.copy2 of the template over whatever the work directory held.
CopyTemplate(c) ==
  /\ pc[c] = "prepare"
  /\ working' = [working EXCEPT ![DirOf[c]] = Blank(req[c])]
  /\ Goto(c, "load")
  /\ UNCHANGED <<req, entry, held, silent, lock, version, recalculated, cache>>

\* _write_inputs up to the save: load what is on disk now, set the cells.
LoadWorkbook(c) ==
  /\ pc[c] = "load"
  /\ IF working[DirOf[c]] \in Books /\ req[c] \notin Unresolvable
       THEN Hold(c, working[DirOf[c]]) /\ Goto(c, "save")
       ELSE Raise(c)
  /\ UNCHANGED <<req, entry, silent, lock, version, working, recalculated, cache>>

\* wb.save: the loaded workbook with this request's inputs on it.
SaveInputs(c) ==
  /\ pc[c] = "save"
  /\ working' = [working EXCEPT ![DirOf[c]] =
                   [held[c] EXCEPT !.inputs = @ \cup {req[c]}]]
  /\ Goto(c, "wait")
  /\ UNCHANGED <<req, entry, held, silent, lock, version, recalculated, cache>>

\* Mutant: soffice is launched without waiting for the lock.
LaunchSofficeUnlocked(c) ==
  /\ pc[c] = "wait"
  /\ lock' = [lock EXCEPT ![ProcessOf[c]] = c]
  /\ Hold(c, working[DirOf[c]])
  /\ Goto(c, "soffice")
  /\ UNCHANGED <<req, entry, silent, version, working, recalculated, cache>>

\* with _SOFFICE_LOCK: soffice starts and loads the working copy.
LaunchSoffice(c) ==
  LET p == ProcessOf[c] IN
  /\ pc[c] = "wait"
  /\ lock[p] = Free
  /\ lock' = [lock EXCEPT ![p] = c]
  /\ Hold(c, working[DirOf[c]])
  /\ Goto(c, "soffice")
  /\ UNCHANGED <<req, entry, silent, version, working, recalculated, cache>>

\* Leaving the with block, by any path, releases the lock.
Release(c) == lock' = [lock EXCEPT ![ProcessOf[c]] = Free]

\* soffice exits 0: with the recalculated workbook, or with an empty or
\* truncated file, or with nothing written.
SofficeExitsZero(c) ==
  /\ pc[c] = "soffice"
  /\ Release(c)
  /\ Goto(c, "check")
  /\ \/ /\ held[c] \in Books
        /\ recalculated' = [recalculated EXCEPT ![DirOf[c]] = held[c]]
        /\ UNCHANGED silent
     \/ /\ \E bad \in {Empty, Torn} :
             recalculated' = [recalculated EXCEPT ![DirOf[c]] = bad]
        /\ UNCHANGED silent
     \/ /\ StaleSilentExit \/ recalculated[DirOf[c]] = Absent
        /\ silent' = [silent EXCEPT ![c] = TRUE]
        /\ UNCHANGED recalculated
  /\ UNCHANGED <<req, entry, held, version, working, cache>>

\* A non-zero exit, or the 60 second timeout, whatever was written by then.
SofficeFails(c) ==
  /\ pc[c] = "soffice"
  /\ Release(c)
  /\ Raise(c)
  /\ \E left \in {recalculated[DirOf[c]], Torn, held[c]} :
       recalculated' = [recalculated EXCEPT ![DirOf[c]] = left]
  /\ UNCHANGED <<req, entry, silent, version, working, cache>>

\* Mutant: a missing or empty output is recalculated again, without a limit.
CheckOutputAndRetry(c) ==
  /\ pc[c] = "check"
  /\ Goto(c, IF recalculated[DirOf[c]] \in {Absent, Empty} THEN "wait" ELSE "read")
  /\ UNCHANGED <<req, entry, held, silent, lock, version, working, recalculated, cache>>

\* expected_output.exists() and st_size, outside the lock.
CheckOutput(c) ==
  /\ pc[c] = "check"
  /\ IF recalculated[DirOf[c]] \in {Absent, Empty}
       THEN Raise(c)
       ELSE Goto(c, "read") /\ UNCHANGED held
  /\ UNCHANGED <<req, entry, silent, lock, version, working, recalculated, cache>>

\* _read_outputs: load_workbook of what is there now; BadZipFile otherwise.
ReadOutputs(c) ==
  LET book == recalculated[DirOf[c]] IN
  /\ pc[c] = "read"
  /\ IF book \in Books
       THEN Hold(c, book) /\ Goto(c, IF entry[c] = NoEntry THEN "returned" ELSE "store")
       ELSE Raise(c)
  /\ UNCHANGED <<req, entry, silent, lock, version, working, recalculated, cache>>

\* Mutant: stored without comparing what JSON gives back.
StoreAnswerUnchecked(c) ==
  /\ pc[c] = "store"
  /\ cache' = [cache EXCEPT ![entry[c]] = held[c]]
  /\ Goto(c, "returned")
  /\ UNCHANGED <<req, entry, held, silent, lock, version, working, recalculated>>

\* _cache_write: stored by os.replace, unless JSON does not reproduce the
\* answer or anything in the cache layer raises; the answer is returned anyway.
StoreAnswer(c) ==
  /\ pc[c] = "store"
  /\ \/ /\ req[c] \notin Unreproducible
        /\ cache' = [cache EXCEPT ![entry[c]] = held[c]]
     \/ UNCHANGED cache
  /\ Goto(c, "returned")
  /\ UNCHANGED <<req, entry, held, silent, lock, version, working, recalculated>>

----------------------------------------------------------------------------
(* The environment.                                                        *)

\* A process dies: its computes are gone with their locals, its lock and its
\* memo.  Files stay; one that was being written (copy2, wb.save) may be left
\* unreadable.
Crash(p) ==
  LET Dead    == {c \in Callers : ProcessOf[c] = p}
      Writing == {DirOf[c] : c \in {x \in Dead : pc[x] \in {"prepare", "save"}}}
  IN
  /\ \E c \in Dead : pc[c] \in Busy
  /\ pc'      = [c \in Callers |-> IF c \in Dead THEN "idle" ELSE pc[c]]
  /\ held'    = [c \in Callers |-> IF c \in Dead THEN Absent ELSE held[c]]
  /\ entry'   = [c \in Callers |-> IF c \in Dead THEN NoEntry ELSE entry[c]]
  /\ silent'  = [c \in Callers |-> IF c \in Dead THEN FALSE ELSE silent[c]]
  /\ lock'    = [lock EXCEPT ![p] = Free]
  /\ version' = [version EXCEPT ![p] = "unprobed"]
  /\ \E torn \in SUBSET Writing :
       working' = [d \in Dirs |-> IF d \in torn THEN Torn ELSE working[d]]
  /\ UNCHANGED <<req, recalculated, cache>>

\* The cache directory is the user's: an entry may be deleted or damaged.
DamageEntry(k) ==
  /\ cache[k] \in Books
  /\ \E left \in {Absent, Torn} : cache' = [cache EXCEPT ![k] = left]
  /\ UNCHANGED <<pc, req, entry, held, silent, lock, version, working, recalculated>>

----------------------------------------------------------------------------
Advance(c) ==
  \/ MissVersion(c)   \/ ProbeVersion(c) \/ NoCacheEntry(c) \/ LookUp(c)
  \/ CopyTemplate(c)
  \/ LoadWorkbook(c)  \/ SaveInputs(c)   \/ LaunchSoffice(c)
  \/ SofficeExitsZero(c) \/ SofficeFails(c)
  \/ CheckOutput(c)   \/ ReadOutputs(c)  \/ StoreAnswer(c)

Next ==
  \/ \E c \in Callers : (\E r \in Requests : Begin(c, r)) \/ Advance(c)
  \/ \E p \in Processes : Crash(p)
  \/ \E k \in Keys : DamageEntry(k)

Spec == Init /\ [][Next]_vars

\* A running thread keeps running, and soffice ends: it exits or the timeouts
\* of 60 and 30 seconds end it.  Nothing is assumed of who gets the lock.
FairSpec == Spec /\ \A c \in Callers : WF_vars(Advance(c))

----------------------------------------------------------------------------
(* Properties.                                                             *)

\* No two callers pass one work directory: the condition under which the
\* engine keeps its promise.  The command line does not ensure it (every
\* process passes /tmp/tenforty_work/federal).
ExclusiveDirs == \A c, e \in Callers : DirOf[c] = DirOf[e] => c = e

\* A compute that returns, returns the answer of its own request: never
\* another caller's, another year's, a merge of two, or a stale one, whatever
\* crashed, timed out, was damaged or was cached before (engine.py:26-28,
\* "open to recomputation, closed to wrong answers").
AnswersAreOwn ==
  \A c \in Callers : pc[c] = "returned" => held[c] = Own(req[c])

\* What the cache would serve for a request is that request's answer, so a
\* failed or foreign recalculation never outlives its compute (engine.py:9).
CacheSound ==
  \A r \in Cacheable :
    cache[KeyOf[r]] \in Books => cache[KeyOf[r]] = Own(r) /\ r \notin Unreproducible

\* At most one soffice of a process runs at a time, and only the caller that
\* runs it holds the lock, so an exception or a crash leaves none behind
\* (engine.py:53-57).
SofficeSerialised ==
  \A c \in Callers : pc[c] = "soffice" <=> lock[ProcessOf[c]] = c

\* "soffice exited 0 but did not create" its output is an error of that very
\* compute: it never goes on to read an answer (engine.py:394-402, and the
\* unit test of the missing output).
SilentExitRaises ==
  \A c \in Callers : silent[c] => pc[c] \notin {"read", "store", "returned"}

\* A compute that got LibreOffice ends: it returns, raises, or its process
\* dies; no later step of it waits for another caller (engine.py:355-411).
LaunchedComputeEnds ==
  \A c \in Callers : pc[c] = "soffice" ~> pc[c] \notin Busy

\* The inductive strengthening of AnswersAreOwn and CacheSound, for callers
\* that share no work directory: which file, or which workbook in memory, is
\* already known to be this request's own at each point of compute().
OwnBookInv(c) ==
  LET d == DirOf[c] IN
  /\ pc[c] = "load" => working[d] = Blank(req[c])
  /\ pc[c] = "save" => held[c] = Blank(req[c])
  /\ pc[c] = "wait" => working[d] = Own(req[c])
  /\ pc[c] \in {"soffice", "store", "returned"} => held[c] = Own(req[c])
  /\ pc[c] = "check" => recalculated[d] \in {Absent, Empty, Torn, Own(req[c])}
  /\ pc[c] = "check" /\ silent[c] => recalculated[d] = Absent
  /\ pc[c] = "read" => recalculated[d] \in {Torn, Own(req[c])}
  /\ silent[c] => pc[c] \in {"check", "raised", "idle"}

\* A compute that is going to use the cache is one that may.
OwnEntryInv(c) ==
  /\ pc[c] \in {"probe", "version", "key"} => req[c] \in Cacheable
  /\ entry[c] # NoEntry /\ pc[c] \in Busy
       => req[c] \in Cacheable /\ entry[c] = KeyOf[req[c]]
  /\ pc[c] = "store" => entry[c] # NoEntry

IInv ==
  /\ TypeOK
  /\ CacheSound
  /\ \A c \in Callers : OwnBookInv(c) /\ OwnEntryInv(c)

\* The engine implements AnswerService: what a caller sees of compute().
StatusOf(point) == CASE point \in Busy     -> "busy"
                     [] point = "returned" -> "answered"
                     [] point = "raised"   -> "failed"
                     [] point = "idle"     -> "idle"

SeenStatus == [c \in Callers |-> StatusOf(pc[c])]
SeenAnswer == [c \in Callers |-> IF pc[c] = "returned" THEN held[c] ELSE Absent]

Service == INSTANCE AnswerService WITH
  AnswerOf <- [r \in Requests |-> Own(r)], NoAnswer <- Absent,
  status <- SeenStatus, asked <- req, answer <- SeenAnswer

\* Seen from outside, every behaviour of the engine is one of AnswerService:
\* a compute answers for its own request, or raises, or dies.
ServiceSpec == Service!Spec
=============================================================================
