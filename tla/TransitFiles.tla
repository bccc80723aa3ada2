---------------------------- MODULE TransitFiles ----------------------------
(***************************************************************************)
(* TransitFileService: uploaded files in one directory, each with a        *)
(* metadata file that holds its name and type, for a limited time.  An     *)
(* upload first sweeps the directory, writes its content under a temporary *)
(* name, renames it and then writes its metadata.  A sweep lists the       *)
(* directory and treats all entries at once: it asks for the age of each   *)
(* and unlinks the old ones.  Nothing orders sweeps, uploads, reads and    *)
(* deletions; every file operation is a step of its own.  Names are        *)
(* random, so no two uploads share one.                                    *)
(***************************************************************************)
EXTENDS Naturals

CONSTANTS
    Uploads,  \* uploads, numbered in the order they come in; also their file's id
    Reads,
    Deletes,
    TTL,      \* how many ticks old a file may be
    MaxTime,
    None

ConstantsOK ==
    /\ Uploads \subseteq Nat \ {0}
    /\ {TTL, MaxTime} \subseteq Nat
    /\ None \notin Nat

VARIABLES
    now,
    disk,     \* when each file was last written to, or None
    upload,   \* where each upload is
    born,     \* history: when its content was complete, or None
    cutoff,   \* files older than this are unlinked by a sweep
    todo,     \* where a sweep is with each file
    read,     \* the file each read asks for, or None
    rpc,      \* where it is
    name,     \* whose name it has found for the file: "own" or "fallback"
    deletion, \* the file each deletion asks for, or None
    dpc       \* where it is

vars == <<now, disk, upload, born, cutoff, todo, read, rpc, name, deletion, dpc>>

Boot == 0
Sweeps == Uploads \cup {Boot}
Files == {"tmp", "file", "meta"} \X Uploads
Times == 0 .. MaxTime
UploadSteps == {"new", "sweeping", "opening", "writing", "written", "renamed", "answered", "failed"}
Ended == {"whole", "nameless", "broken", "missing", "cut"}

Init ==
    /\ now = 0
    /\ disk = [n \in Files |-> None]
    /\ upload = [u \in Uploads |-> "new"]
    /\ born = [u \in Uploads |-> None]
    /\ cutoff = [s \in Sweeps |-> 0]
    /\ todo = [s \in Sweeps |-> [n \in Files |-> "unseen"]]
    /\ read = [r \in Reads |-> None]
    /\ rpc = [r \in Reads |-> "new"]
    /\ name = [r \in Reads |-> "own"]
    /\ deletion = [d \in Deletes |-> None]
    /\ dpc = [d \in Deletes |-> "new"]

uploadVars == <<upload, born>>
sweepVars == <<cutoff, todo>>
readVars == <<read, rpc, name>>
deleteVars == <<deletion, dpc>>

Sweeping(s) == \E n \in Files : todo[s][n] # "unseen"

\* The server starts to listen when its first sweep is over.
Listening == ~Sweeping(Boot)

Unlinked(n) == disk' = [disk EXCEPT ![n] = None]

Tick ==
    /\ now < MaxTime
    /\ now' = now + 1
    /\ UNCHANGED <<disk, uploadVars, sweepVars, readVars, deleteVars>>

-------------------------------------------------------------------------------
(* cleanupExpired                                                          *)

\* Seeded fault: metadata is left to go with its file.
ManagedWithoutMeta(n) == n[1] # "meta"
Managed(n) == n[1] \in {"file", "tmp", "meta"}

\* What a sweep makes of the entries it lists.
Listing == [n \in Files |-> IF disk[n] = None THEN "unseen"
                            ELSE IF Managed(n) THEN "listed" ELSE "done"]

\* The cutoff, kept natural.
Cutoff == IF now > TTL THEN now - TTL ELSE 0

Treat(s, n, step) == todo' = [todo EXCEPT ![s][n] = step]

Stat(s, n) ==
    /\ todo[s][n] = "listed"
    /\ Treat(s, n, IF disk[n] # None /\ disk[n] < cutoff[s] THEN "old" ELSE "done")
    /\ UNCHANGED <<now, disk, uploadVars, cutoff, readVars, deleteVars>>

\* What it unlinks may be gone by then.
UnlinkOld(s, n) ==
    /\ todo[s][n] = "old"
    /\ Unlinked(n)
    /\ Treat(s, n, IF n[1] = "file" THEN "unlinked" ELSE "done")
    /\ UNCHANGED <<now, uploadVars, cutoff, readVars, deleteVars>>

UnlinkMetaOfOld(s, n) ==
    /\ todo[s][n] = "unlinked"
    /\ Unlinked(<<"meta", n[2]>>)
    /\ Treat(s, n, "done")
    /\ UNCHANGED <<now, uploadVars, cutoff, readVars, deleteVars>>

Swept(s) == \A n \in Files : todo[s][n] \in {"unseen", "done"}

ForgetSweep(s) ==
    /\ todo' = [todo EXCEPT ![s] = [n \in Files |-> "unseen"]]
    /\ cutoff' = [cutoff EXCEPT ![s] = 0]

EndBoot ==
    /\ Sweeping(Boot)
    /\ Swept(Boot)
    /\ ForgetSweep(Boot)
    /\ UNCHANGED <<now, disk, uploadVars, readVars, deleteVars>>

-------------------------------------------------------------------------------
(* create                                                                  *)

Goto(u, step) == upload' = [upload EXCEPT ![u] = step]

\* The cutoff is taken just before the directory is listed.
StartUpload(u) ==
    /\ upload[u] = "new"
    /\ \A v \in Uploads : v < u => upload[v] # "new"
    /\ Listening
    /\ Goto(u, "sweeping")
    /\ cutoff' = [cutoff EXCEPT ![u] = Cutoff]
    /\ todo' = [todo EXCEPT ![u] = Listing]
    /\ UNCHANGED <<now, disk, born, readVars, deleteVars>>

EndSweep(u) ==
    /\ upload[u] = "sweeping"
    /\ Swept(u)
    /\ Goto(u, "opening")
    /\ ForgetSweep(u)
    /\ UNCHANGED <<now, disk, born, readVars, deleteVars>>

Open(u) ==
    /\ upload[u] = "opening"
    /\ disk' = [disk EXCEPT ![<<"tmp", u>>] = now]
    /\ Goto(u, "writing")
    /\ UNCHANGED <<now, born, sweepVars, readVars, deleteVars>>

\* The last chunk of the content, which may be long in coming.  A sweep may have
\* unlinked the file; writing to it brings it no name back.
Write(u) ==
    /\ upload[u] = "writing"
    /\ disk' = [disk EXCEPT ![<<"tmp", u>>] = IF @ = None THEN None ELSE now]
    /\ born' = [born EXCEPT ![u] = now]
    /\ Goto(u, "written")
    /\ UNCHANGED <<now, sweepVars, readVars, deleteVars>>

\* Too long after all, or the client has gone.
Abort(u) ==
    /\ upload[u] = "writing"
    /\ Unlinked(<<"tmp", u>>)
    /\ Goto(u, "failed")
    /\ UNCHANGED <<now, born, sweepVars, readVars, deleteVars>>

Rename(u) ==
    /\ upload[u] = "written"
    /\ IF disk[<<"tmp", u>>] = None
         THEN Goto(u, "failed") /\ UNCHANGED disk
         ELSE /\ disk' = [disk EXCEPT ![<<"tmp", u>>] = None, ![<<"file", u>>] = disk[<<"tmp", u>>]]
              /\ Goto(u, "renamed")
    /\ UNCHANGED <<now, born, sweepVars, readVars, deleteVars>>

WriteMeta(u) ==
    /\ upload[u] = "renamed"
    /\ disk' = [disk EXCEPT ![<<"meta", u>>] = now]
    /\ Goto(u, "answered")
    /\ UNCHANGED <<now, born, sweepVars, readVars, deleteVars>>

-------------------------------------------------------------------------------
(* read and response: of an id that the upload has answered with           *)

Known(u) == upload[u] = "answered"

\* Seeded fault: a file is kept a tick less than agreed.
OldAtTTL(n) == disk[n] + TTL <= now
Old(n) == disk[n] + TTL < now

Enter(r, step) == rpc' = [rpc EXCEPT ![r] = step]

StatRead(r, u) ==
    /\ rpc[r] = "new"
    /\ Listening
    /\ Known(u)
    /\ read' = [read EXCEPT ![r] = u]
    /\ Enter(r, IF disk[<<"file", u>>] = None THEN "missing"
                ELSE IF Old(<<"file", u>>) THEN "expired" ELSE "found")
    /\ UNCHANGED <<now, disk, uploadVars, sweepVars, name, deleteVars>>

\* The metadata stays for a sweep.
UnlinkExpired(r) ==
    /\ rpc[r] = "expired"
    /\ Unlinked(<<"file", read[r]>>)
    /\ Enter(r, "missing")
    /\ UNCHANGED <<now, uploadVars, sweepVars, read, name, deleteVars>>

ReadMeta(r) ==
    /\ rpc[r] = "found"
    /\ name' = [name EXCEPT ![r] = IF disk[<<"meta", read[r]>>] = None THEN "fallback" ELSE "own"]
    /\ Enter(r, "named")
    /\ UNCHANGED <<now, disk, uploadVars, sweepVars, read, deleteVars>>

\* A file that is open stays readable.  When it has gone, read ends in an error,
\* and response in a body that breaks off, after its headers.
OpenRead(r) ==
    /\ rpc[r] = "named"
    /\ Enter(r, IF disk[<<"file", read[r]>>] = None THEN "broken"
                ELSE IF name[r] = "own" THEN "whole" ELSE "nameless")
    /\ UNCHANGED <<now, disk, uploadVars, sweepVars, read, name, deleteVars>>

-------------------------------------------------------------------------------
(* delete                                                                  *)

StartDelete(d, u) ==
    /\ dpc[d] = "new"
    /\ Listening
    /\ Known(u)
    /\ deletion' = [deletion EXCEPT ![d] = u]
    /\ dpc' = [dpc EXCEPT ![d] = "first"]
    /\ UNCHANGED <<now, disk, uploadVars, sweepVars, readVars>>

\* Seeded fault: the metadata goes first.
MetaFirst == <<"meta", "file">>
DeleteOrder == <<"file", "meta">>

\* Without the file the metadata stays.
UnlinkFirst(d) ==
    LET n == <<DeleteOrder[1], deletion[d]>>
    IN  /\ dpc[d] = "first"
        /\ Unlinked(n)
        /\ dpc' = [dpc EXCEPT ![d] = IF disk[n] = None THEN "done" ELSE "second"]
        /\ UNCHANGED <<now, uploadVars, sweepVars, readVars, deletion>>

UnlinkSecond(d) ==
    /\ dpc[d] = "second"
    /\ Unlinked(<<DeleteOrder[2], deletion[d]>>)
    /\ dpc' = [dpc EXCEPT ![d] = "done"]
    /\ UNCHANGED <<now, uploadVars, sweepVars, readVars, deletion>>

-------------------------------------------------------------------------------
\* The directory stays, and is swept before anything else is done.
Restart ==
    /\ upload' = [u \in Uploads |-> IF upload[u] \in {"new", "answered"} THEN upload[u] ELSE "failed"]
    /\ rpc' = [r \in Reads |-> IF rpc[r] \in {"new"} \cup Ended THEN rpc[r] ELSE "cut"]
    /\ dpc' = [d \in Deletes |-> IF dpc[d] = "new" THEN "new" ELSE "done"]
    /\ cutoff' = [s \in Sweeps |-> IF s = Boot THEN Cutoff ELSE 0]
    /\ todo' = [s \in Sweeps |-> IF s = Boot THEN Listing ELSE [n \in Files |-> "unseen"]]
    /\ UNCHANGED <<now, disk, born, read, name, deletion>>

Next ==
    \/ \E u \in Uploads :
          \/ StartUpload(u) \/ EndSweep(u) \/ Open(u) \/ Write(u) \/ Abort(u) \/ Rename(u)
          \/ WriteMeta(u)
          \/ \E r \in Reads : StatRead(r, u)
          \/ \E d \in Deletes : StartDelete(d, u)
    \/ \E s \in Sweeps, n \in Files : Stat(s, n) \/ UnlinkOld(s, n) \/ UnlinkMetaOfOld(s, n)
    \/ EndBoot
    \/ \E r \in Reads : UnlinkExpired(r) \/ ReadMeta(r) \/ OpenRead(r)
    \/ \E d \in Deletes : UnlinkFirst(d) \/ UnlinkSecond(d)
    \/ Tick \/ Restart

Spec == Init /\ [][Next]_vars

-------------------------------------------------------------------------------
TypeOK ==
    /\ now \in Times
    /\ disk \in [Files -> Times \cup {None}]
    /\ upload \in [Uploads -> UploadSteps]
    /\ born \in [Uploads -> Times \cup {None}]
    /\ cutoff \in [Sweeps -> Times]
    /\ todo \in [Sweeps -> [Files -> {"unseen", "listed", "old", "unlinked", "done"}]]
    /\ read \in [Reads -> Uploads \cup {None}]
    /\ rpc \in [Reads -> {"new", "expired", "found", "named"} \cup Ended]
    /\ name \in [Reads -> {"own", "fallback"}]
    /\ deletion \in [Deletes -> Uploads \cup {None}]
    /\ dpc \in [Deletes -> {"new", "first", "second", "done"}]

Aged(u) == born[u] + TTL < now

\* Within its time, and while nobody deletes it, a file whose upload was answered
\* can be read, whole and under its own name, whatever is swept meanwhile.  A
\* deletion may make a read fail, but never lose the name only.
ReadsAreWhole ==
    \A r \in Reads :
       /\ rpc[r] \in {"missing", "broken"}
             => Aged(read[r]) \/ \E d \in Deletes : deletion[d] = read[r]
       /\ rpc[r] = "nameless" => Aged(read[r])

\* When a sweep is over, nothing is left that was too old when it began: content,
\* half written content of an upload that was cut off, or metadata without a file.
\* Only an upload that finished writing so long ago may have given such content its
\* name behind the listing.
SweepClears ==
    \A s \in Sweeps :
       Sweeping(s) /\ Swept(s) =>
          \A n \in Files :
             disk[n] # None /\ disk[n] < cutoff[s]
                => n[1] = "file" /\ todo[s][<<"tmp", n[2]>>] # "unseen"
===============================================================================
