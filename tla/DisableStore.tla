----------------------------- MODULE DisableStore -----------------------------
(***************************************************************************)
(* ConnectionDisableStore, a JSON file with an in-memory cache and a       *)
(* JsonWriteQueue: setDisabled runs on the queue, one call at a time;      *)
(* isDisabled and listDisabled do not.  The first read after a start loads *)
(* the file, and several loads may be under way at once; a read that fails *)
(* counts as an empty file.  Writes go to a temporary file that is renamed *)
(* into place, and may fail; the process may be restarted at any moment.   *)
(***************************************************************************)
EXTENDS Sequences

CONSTANTS
    Writers,  \* callers of setDisabled
    Readers,  \* callers of isDisabled
    Keys,     \* service::connectionName
    Cold,     \* the cache is undefined
    None

ConstantsOK ==
    /\ Writers \cap Readers = {}
    /\ None \notin Writers \cup Readers
    /\ \A set \in SUBSET Keys : set # Cold

VARIABLES
    file,      \* the disabled keys in the file
    cache,     \* the disabled keys in the cache, or Cold
    queue,     \* the write queue's chain: the first call runs, the others wait
    pc,        \* where each call is
    arg,       \* what each setDisabled call asks for
    data,      \* what each call has loaded, or edited
    answer,    \* what each reader was told
    promised,  \* history: the keys that the sets performed so far leave disabled
    raced,     \* history: a load has replaced a cache that had moved on since
    unread     \* history: a read of a file that had something in it has failed

vars == <<file, cache, queue, pc, arg, data, answer, promised, raced, unread>>

Callers == Writers \cup Readers
Settings == [key : Keys, disabled : BOOLEAN]
Steps == {"idle", "queued", "loading", "loaded", "writing", "renamed"}

Apply(set, s) == IF s.disabled THEN set \cup {s.key} ELSE set \ {s.key}

Init ==
    /\ file = {}
    /\ cache = Cold
    /\ queue = <<>>
    /\ pc = [c \in Callers |-> "idle"]
    /\ arg = [w \in Writers |-> None]
    /\ data = [c \in Callers |-> None]
    /\ answer = [r \in Readers |-> None]
    /\ promised = {}
    /\ raced = FALSE
    /\ unread = FALSE

Goto(c, step) == pc' = [pc EXCEPT ![c] = step]

-------------------------------------------------------------------------------
(* JsonWriteQueue.run                                                      *)

Enqueue(w) ==
    /\ pc[w] = "idle"
    /\ \E s \in Settings : arg' = [arg EXCEPT ![w] = s]
    /\ queue' = Append(queue, w)
    /\ Goto(w, "queued")
    /\ UNCHANGED <<file, cache, data, answer, promised, raced, unread>>

\* Seeded fault: a job does not wait for the jobs before it.
NoWait(w) == pc[w] = "queued"

\* chain.then(fn, fn): the jobs before it have settled.
Turn(w) == pc[w] = "queued" /\ Head(queue) = w

\* Seeded fault: a failed job leaves the chain rejected, and it stays in front.
ChainBroken(q, failed) == IF failed THEN q ELSE Tail(q)
ChainAfter(q, failed) == Tail(q)

Leave(w, failed) ==
    /\ queue' = ChainAfter(queue, failed)
    /\ pc' = [pc EXCEPT ![w] = "idle"]
    /\ arg' = [arg EXCEPT ![w] = None]
    /\ data' = [data EXCEPT ![w] = None]

-------------------------------------------------------------------------------
(* read(): from the cache, or by loading the file                          *)

\* A job whose turn has come, with a warm cache: edits a copy of it.
EditCached(w) ==
    /\ Turn(w)
    /\ cache # Cold
    /\ data' = [data EXCEPT ![w] = Apply(cache, arg[w])]
    /\ Goto(w, "writing")
    /\ UNCHANGED <<file, cache, queue, arg, answer, promised, raced, unread>>

AnswerCached(r) ==
    /\ pc[r] = "idle"
    /\ cache # Cold
    /\ answer' = [answer EXCEPT ![r] = cache]
    /\ UNCHANGED <<file, cache, queue, pc, arg, data, promised, raced, unread>>

StartLoad(c) ==
    /\ c \in Writers => Turn(c)
    /\ c \in Readers => pc[c] = "idle"
    /\ cache = Cold
    /\ Goto(c, "loading")
    /\ UNCHANGED <<file, cache, queue, arg, data, answer, promised, raced, unread>>

Load(c) ==
    /\ pc[c] = "loading"
    /\ data' = [data EXCEPT ![c] = file]
    /\ Goto(c, "loaded")
    /\ UNCHANGED <<file, cache, queue, arg, answer, promised, raced, unread>>

\* read() takes whatever fails, the read or the parse, for an empty store.
LoadFails(c) ==
    /\ pc[c] = "loading"
    /\ data' = [data EXCEPT ![c] = {}]
    /\ unread' = (unread \/ file # {})
    /\ Goto(c, "loaded")
    /\ UNCHANGED <<file, cache, queue, arg, answer, promised, raced>>

\* The load ends: the cache becomes what was loaded, whatever it is by now.
FillCache(c) ==
    /\ pc[c] = "loaded"
    /\ cache' = data[c]
    /\ raced' = (raced \/ (cache # Cold /\ cache # data[c]))
    /\ UNCHANGED unread

EditLoaded(w) ==
    /\ FillCache(w)
    /\ data' = [data EXCEPT ![w] = Apply(@, arg[w])]
    /\ Goto(w, "writing")
    /\ UNCHANGED <<file, queue, arg, answer, promised>>

AnswerLoaded(r) ==
    /\ FillCache(r)
    /\ answer' = [answer EXCEPT ![r] = data[r]]
    /\ data' = [data EXCEPT ![r] = None]
    /\ Goto(r, "idle")
    /\ UNCHANGED <<file, queue, arg, promised>>

-------------------------------------------------------------------------------
(* write(): the file first, then the cache                                 *)

Rename(w) ==
    /\ pc[w] = "writing"
    /\ file' = data[w]
    /\ promised' = Apply(promised, arg[w])
    /\ Goto(w, "renamed")
    /\ UNCHANGED <<cache, queue, arg, data, answer, raced, unread>>

\* mkdir, the write of the temporary file or the rename failed.
WriteFails(w) ==
    /\ pc[w] = "writing"
    /\ Leave(w, TRUE)
    /\ UNCHANGED <<file, cache, answer, promised, raced, unread>>

Resolve(w) ==
    /\ pc[w] = "renamed"
    /\ cache' = data[w]
    /\ Leave(w, FALSE)
    /\ UNCHANGED <<file, answer, promised, raced, unread>>

\* What was in memory is lost; calls that had not been answered count as
\* performed exactly if the file has them.
Restart ==
    /\ cache' = Cold
    /\ queue' = <<>>
    /\ pc' = [c \in Callers |-> "idle"]
    /\ arg' = [w \in Writers |-> None]
    /\ data' = [c \in Callers |-> None]
    /\ promised' = file
    /\ raced' = FALSE
    /\ unread' = FALSE
    /\ UNCHANGED <<file, answer>>

Progress(c) ==
    \/ StartLoad(c) \/ Load(c) \/ LoadFails(c)
    \/ /\ c \in Writers
       /\ EditCached(c) \/ EditLoaded(c) \/ Rename(c) \/ WriteFails(c) \/ Resolve(c)
    \/ c \in Readers /\ (AnswerCached(c) \/ AnswerLoaded(c))

Next ==
    \/ \E w \in Writers : Enqueue(w)
    \/ \E c \in Callers : Progress(c)
    \/ Restart

Spec == Init /\ [][Next]_vars

\* The event loop runs every continuation and every file operation ends.
Fairness == \A w \in Writers : WF_vars(Progress(w))

FairSpec == Spec /\ Fairness

-------------------------------------------------------------------------------
TypeOK ==
    /\ file \subseteq Keys
    /\ cache = Cold \/ cache \subseteq Keys
    /\ queue \in Seq(Writers)
    /\ pc \in [Callers -> Steps]
    /\ arg \in [Writers -> Settings \cup {None}]
    /\ \A w \in Writers : pc[w] # "idle" <=> \E i \in DOMAIN queue : queue[i] = w
    /\ \A c \in Callers : data[c] = None \/ data[c] \subseteq Keys
    /\ \A r \in Readers : answer[r] = None \/ answer[r] \subseteq Keys
    /\ promised \subseteq Keys
    /\ raced \in BOOLEAN
    /\ unread \in BOOLEAN

\* store-concurrency.test.ts: "Concurrent mutations on real JSON stores must not
\* drop updates."  As long as every read of the file succeeds, the file holds what
\* the sets performed so far, in the order performed, come to: no set wipes
\* another's, not even around a failed write or a restart.
NothingWiped == unread \/ file = promised

\* The file holds what the sets come to, and the cache that answers isDisabled
\* agrees, unless a load has come back after the cache had moved on, or its read
\* has failed: only a load can make the next set wipe the others, and failed
\* writes and restarts never do.
WipedOnlyByBadLoad ==
    ~raced /\ ~unread =>
        /\ file = promised
        /\ \/ cache \in {Cold, promised}
           \/ \E w \in Writers : pc[w] = "renamed"

\* A set that is queued comes to its end, also behind one that fails.
QueueDrains == \A w \in Writers : pc[w] = "queued" ~> pc[w] = "idle"
===============================================================================
