----------------------------- MODULE RecordStore -----------------------------
(***************************************************************************)
(* The local records of internal/records/store.go behind the handlers of   *)
(* the admin API: a table in memory and a JSON file that every change      *)
(* rewrites.  A change is made under the lock; its save takes the lock     *)
(* again for a copy, and writes that copy to <path>.tmp and renames it     *)
(* with no lock at all.  The temporary name is one for all saves, so two   *)
(* of them may write one file, rename each other's, or write to the file   *)
(* that is in place already.  The process may die at any step.             *)
(*                                                                         *)
(* A record is its (name, type), its value and its TTL; the order of the   *)
(* values of a name is not modelled.                                       *)
(***************************************************************************)
EXTENDS Integers

CONSTANTS
    Clients,            \* requests the API serves at a time
    Names,              \* fqdn(name) and type: the keys of the index
    Values,
    TTLs,               \* 0 asks for the default
    DefaultTTL

ASSUME RecordsAssumption == DefaultTTL # 0

Records == [name : Names, value : Values, ttl : (TTLs \ {0}) \cup {DefaultTTL}]
Tables  == SUBSET Records

\* What a file name leads to: nothing, a file just truncated, one that holds a
\* list of records, or one that does not parse.
Files  == [is : {"none", "empty", "list", "torn"}, list : Tables]
NoFile == [is |-> "none", list |-> {}]
Empty  == [is |-> "empty", list |-> {}]
Torn   == [is |-> "torn", list |-> {}]
List(t) == [is |-> "list", list |-> t]

VARIABLES
    up,             \* the process runs
    table,          \* s.records
    path, tmp,      \* what the two names hold
    pc,             \* where each request is
    copy,           \* persist's copy of the table
    fd,             \* the file a save has open, by the name it has now
    met,            \* history: requests that met another one under way
    trust,          \* history: what may be expected of the file
    failed          \* history: some request failed or was cut off

vars == <<up, table, path, tmp, pc, copy, fd, met, trust, failed>>

Steps == {"idle", "copying", "opening", "writing", "renaming"}

Init ==
    /\ up = TRUE
    /\ table = {}
    /\ path = NoFile /\ tmp = NoFile
    /\ pc = [c \in Clients |-> "idle"]
    /\ copy = [c \in Clients |-> {}]
    /\ fd = [c \in Clients |-> "none"]
    /\ met = {}
    /\ trust = "current"
    /\ failed = FALSE

Saving == {c \in Clients : pc[c] # "idle"}

-----------------------------------------------------------------------------
\* Add: the default TTL, and one record for a name and a value.
Normalised(r) == [r EXCEPT !.ttl = IF r.ttl = 0 THEN DefaultTTL ELSE r.ttl]

With(r) == {e \in table : ~(e.name = r.name /\ e.value = r.value)} \cup {Normalised(r)}

\* Delete with and without a value.
Without(n, values) == {e \in table : ~(e.name = n /\ e.value \in values)}

\* The locked part of a request.  What is missing from it, or does not parse,
\* is refused before and changes nothing.
Change(c, changed) ==
    /\ up
    /\ pc[c] = "idle"
    /\ table' = changed
    /\ pc' = [pc EXCEPT ![c] = "copying"]
    /\ met' = IF Saving = {} THEN met ELSE met \cup Saving \cup {c}
    /\ trust' = IF Saving # {} THEN "none"
                ELSE IF trust = "current" THEN "readable" ELSE trust
    /\ UNCHANGED <<up, path, tmp, copy, fd, failed>>

Add(c) == \E n \in Names, v \in Values, t \in TTLs :
    Change(c, With([name |-> n, value |-> v, ttl |-> t]))

Delete(c) == \E n \in Names, values \in {Values} \cup {{v} : v \in Values} :
    Change(c, Without(n, values))

\* persist, under the read lock.
Copy(c) ==
    /\ pc[c] = "copying"
    /\ copy' = [copy EXCEPT ![c] = table]
    /\ pc' = [pc EXCEPT ![c] = "opening"]
    /\ UNCHANGED <<up, table, path, tmp, fd, met, trust, failed>>

\* Mutant: the file itself is rewritten.
OpenInPlace(c) ==
    /\ path' = Empty
    /\ fd' = [fd EXCEPT ![c] = "path"]
    /\ tmp' = tmp

\* Mutant: O_TRUNC is missing.
OpenKeeping(c) ==
    /\ tmp' = IF tmp = NoFile THEN Empty ELSE tmp
    /\ fd' = [fd EXCEPT ![c] = "tmp"]
    /\ path' = path

\* O_CREATE and O_TRUNC: whoever has it open goes on writing to it.
OpenTmp(c) ==
    /\ tmp' = Empty
    /\ fd' = [fd EXCEPT ![c] = "tmp"]
    /\ path' = path

Open(c) ==
    /\ pc[c] = "opening"
    /\ OpenTmp(c)
    /\ pc' = [pc EXCEPT ![c] = "writing"]
    /\ UNCHANGED <<up, table, copy, met, trust, failed>>

\* A text over another one covers it, unless the other is longer.
Over(old, new) == IF old \in {Empty, new} THEN {new} ELSE {new, Torn}

Held(c) == IF fd[c] = "tmp" THEN tmp ELSE IF fd[c] = "path" THEN path ELSE Empty

Put(c, text) ==
    /\ tmp'  = IF fd[c] = "tmp" THEN text ELSE tmp
    /\ path' = IF fd[c] = "path" THEN text ELSE path

Write(c) ==
    /\ pc[c] = "writing"
    /\ \E text \in Over(Held(c), List(copy[c])) : Put(c, text)
    /\ pc' = [pc EXCEPT ![c] = "renaming"]
    /\ UNCHANGED <<up, table, copy, fd, met, trust, failed>>

\* The request is answered and forgotten.
Answered(c) ==
    /\ pc' = [pc EXCEPT ![c] = "idle"]
    /\ copy' = [copy EXCEPT ![c] = {}]
    /\ met' = met \ {c}

\* Files that were open under one name are open under the other, or under none.
Moved == [c \in Clients |-> IF fd[c] = "tmp" THEN "path"
                            ELSE IF fd[c] = "path" THEN "gone" ELSE fd[c]]

Rename(c) ==
    /\ pc[c] = "renaming"
    /\ tmp # NoFile
    /\ path' = tmp
    /\ tmp' = NoFile
    /\ fd' = [Moved EXCEPT ![c] = "none"]
    /\ trust' = IF c \in met THEN trust ELSE "current"
    /\ Answered(c)
    /\ UNCHANGED <<up, table, failed>>

\* Mutant: the error is dropped.
FailsSilently(c) ==
    /\ fd' = [fd EXCEPT ![c] = "none"]
    /\ failed' = failed
    /\ Answered(c)
    /\ UNCHANGED <<up, table, trust>>

\* An error is reported; the table keeps the change.
Fails(c) ==
    /\ fd' = [fd EXCEPT ![c] = "none"]
    /\ failed' = TRUE
    /\ Answered(c)
    /\ UNCHANGED <<up, table, trust>>

OpenFails(c) ==
    /\ pc[c] = "opening"
    /\ Fails(c)
    /\ UNCHANGED <<path, tmp>>

\* The disk is full: what has been written is cut off.
WriteFails(c) ==
    /\ pc[c] = "writing"
    /\ \E text \in {Held(c), Torn} : Put(c, text)
    /\ Fails(c)

\* The temporary file is gone, or the directory refuses the rename.
RenameFails(c) ==
    /\ pc[c] = "renaming"
    /\ Fails(c)
    /\ UNCHANGED <<path, tmp>>

\* Requests under way are never answered.
Crash ==
    /\ up
    /\ up' = FALSE
    /\ table' = {}
    /\ pc' = [c \in Clients |-> "idle"]
    /\ copy' = [c \in Clients |-> {}]
    /\ fd' = [c \in Clients |-> "none"]
    /\ met' = {}
    /\ failed' = (failed \/ Saving # {})
    /\ UNCHANGED <<path, tmp, trust>>

Readable == path.is \in {"none", "list"}

\* Open: no file is an empty store, one that does not parse stops the start.
Start ==
    /\ ~up
    /\ Readable
    /\ up' = TRUE
    /\ table' = path.list
    /\ trust' = "current"
    /\ UNCHANGED <<path, tmp, pc, copy, fd, met, failed>>

Save(c) ==
    \/ Copy(c) \/ Open(c) \/ Write(c) \/ Rename(c)
    \/ OpenFails(c) \/ WriteFails(c) \/ RenameFails(c)

Next ==
    \/ \E c \in Clients : Add(c) \/ Delete(c) \/ Save(c)
    \/ Crash
    \/ Start

Spec == Init /\ [][Next]_vars

-----------------------------------------------------------------------------
TypeOK ==
    /\ up \in BOOLEAN
    /\ table \in Tables
    /\ path \in Files /\ tmp \in Files
    /\ pc \in [Clients -> Steps]
    /\ copy \in [Clients -> Tables]
    /\ fd \in [Clients -> {"none", "tmp", "path", "gone"}]
    /\ met \subseteq Clients
    /\ trust \in {"current", "readable", "none"}
    /\ failed \in BOOLEAN

\* A save that met no other and succeeded leaves the table in the file, whatever
\* failed, overlapped or crashed before it.
LoneSaveIsCurrent == up /\ trust = "current" => Readable /\ path.list = table

\* Changes made one at a time never leave a file the next start refuses, however
\* their saves fail and wherever the process dies.
LoneSavesKeepFile == trust # "none" => Readable

\* A file that does not parse never goes unnoticed: once nothing is under way,
\* some request has been answered with an error or cut off.
TornFileIsNoticed == Saving = {} /\ ~failed => Readable

\* The comments on Store and Add: the store is safe for concurrent use, and a
\* change is persisted when Add and Delete return without an error.
AnsweredChangesAreOnFile == up /\ Saving = {} /\ ~failed => path.list = table
=============================================================================
