-------------------------- MODULE RecordStoreProofs --------------------------
(***************************************************************************)
(* Theorems about RecordStore, for any number of requests, names and       *)
(* values.  Two arguments carry them.  A save that met no other request is *)
(* alone until it ends, so nobody touches its temporary file.  And of the  *)
(* saves that share a temporary file only one can rename it: once two have *)
(* it open, or one has it open after it was renamed, there is always one   *)
(* left that must fail.                                                    *)
(***************************************************************************)
EXTENDS RecordStore, TLAPS

Holders == {c \in Clients : pc[c] \in {"writing", "renaming"}}

\* Only a save has a file open, and what is open as the temporary file is there.
DescriptorsSound ==
    \A c \in Clients :
        /\ fd[c] # "none" => c \in Holders
        /\ fd[c] = "tmp" => tmp # NoFile

\* A request that met no other is the only one, and its temporary file is its own.
LoneSaveSound ==
    /\ met \subseteq Saving
    /\ \A c \in Saving \ met :
         /\ Saving = {c}
         /\ pc[c] # "copying" => copy[c] = table
         /\ pc[c] = "writing" => fd[c] = "tmp" /\ tmp = Empty
         /\ pc[c] = "renaming" => tmp = List(copy[c])

\* What the history variable trust stands for.
TrustSound ==
    /\ trust = "current" => Saving = {} /\ (up => path.list = table)
    /\ trust # "none" => Readable /\ Saving \cap met = {}

\* More saves have the temporary file open than can rename it.
Contended ==
    \/ \E c, d \in Holders : c # d
    \/ Holders # {} /\ tmp = NoFile

\* At most one save has it open, and the file in place is a list.
Orderly ==
    /\ Readable
    /\ Holders = {} => tmp = NoFile
    /\ \A c \in Holders :
         /\ Holders = {c}
         /\ pc[c] = "writing" => fd[c] = "tmp" /\ tmp = Empty
         /\ pc[c] = "renaming" => tmp = List(copy[c])

FailureSound == failed \/ Contended \/ Orderly

IInv ==
    /\ TypeOK
    /\ ~up => Saving = {}
    /\ DescriptorsSound
    /\ LoneSaveSound
    /\ TrustSound
    /\ FailureSound

\* The default TTL applies to a TTL of zero, as Add does it: what is stored is a record.
LEMMA NormalisedIsRecord ==
    ASSUME NEW n \in Names, NEW v \in Values, NEW t \in TTLs
    PROVE  Normalised([name |-> n, value |-> v, ttl |-> t]) \in Records
<1>1. (IF t = 0 THEN DefaultTTL ELSE t) \in (TTLs \ {0}) \cup {DefaultTTL}
    OBVIOUS
<1> QED BY <1>1 DEF Normalised, Records

\* Add and Delete leave a table of records.
LEMMA ChangesAreTables ==
    ASSUME TypeOK
    PROVE  /\ \A n \in Names, v \in Values, t \in TTLs :
                With([name |-> n, value |-> v, ttl |-> t]) \in Tables
           /\ \A n, values : Without(n, values) \in Tables
BY NormalisedIsRecord DEF TypeOK, Tables, With, Without

\* What is in a file that a save writes to.
LEMMA TextsAreFiles ==
    ASSUME TypeOK, NEW c \in Clients
    PROVE  /\ Held(c) \in Files /\ Torn \in Files /\ List(copy[c]) \in Files
           /\ Over(Held(c), List(copy[c])) \subseteq Files
           /\ NoFile \in Files /\ Empty \in Files
BY DEF TypeOK, Files, Held, Over, List, Torn, Empty, NoFile, Tables

\* Every variable keeps its type.
LEMMA TypeInductive == TypeOK /\ [Next]_vars => TypeOK'
<1> SUFFICES ASSUME TypeOK, [Next]_vars PROVE TypeOK'
    OBVIOUS
<1>1. ASSUME NEW c \in Clients, Add(c) PROVE TypeOK'
    BY <1>1, ChangesAreTables DEF Add, Change, TypeOK, Steps, Saving
<1>2. ASSUME NEW c \in Clients, Delete(c) PROVE TypeOK'
    BY <1>2, ChangesAreTables DEF Delete, Change, TypeOK, Steps, Saving
<1>3. ASSUME NEW c \in Clients, Copy(c) PROVE TypeOK'
    BY <1>3 DEF Copy, TypeOK, Steps
<1>4. ASSUME NEW c \in Clients, Open(c) PROVE TypeOK'
    BY <1>4, TextsAreFiles DEF Open, OpenTmp, TypeOK, Steps
<1>5. ASSUME NEW c \in Clients, Write(c) PROVE TypeOK'
    BY <1>5, TextsAreFiles DEF Write, Put, TypeOK, Steps
<1>6. ASSUME NEW c \in Clients, Rename(c) PROVE TypeOK'
    BY <1>6, TextsAreFiles DEF Rename, Moved, Answered, TypeOK, Steps, Tables
<1>7. ASSUME NEW c \in Clients, OpenFails(c) PROVE TypeOK'
    BY <1>7 DEF OpenFails, Fails, Answered, TypeOK, Steps, Tables
<1>8. ASSUME NEW c \in Clients, WriteFails(c) PROVE TypeOK'
    BY <1>8, TextsAreFiles DEF WriteFails, Put, Fails, Answered, TypeOK, Steps, Tables
<1>9. ASSUME NEW c \in Clients, RenameFails(c) PROVE TypeOK'
    BY <1>9 DEF RenameFails, Fails, Answered, TypeOK, Steps, Tables
<1>10. CASE Crash
    BY <1>10 DEF Crash, TypeOK, Steps, Tables
<1>11. CASE Start
    BY <1>11 DEF Start, TypeOK, Files
<1>12. CASE UNCHANGED vars
    BY <1>12 DEF vars, TypeOK
<1> QED BY <1>1, <1>2, <1>3, <1>4, <1>5, <1>6, <1>7, <1>8, <1>9, <1>10, <1>11, <1>12
        DEF Next, Save

\* The start of the process.
LEMMA InitSound == Init => IInv
<1> SUFFICES ASSUME Init PROVE IInv
    OBVIOUS
<1>1. Saving = {} /\ Holders = {}
    BY DEF Init, Saving, Holders
<1>2. TypeOK
    BY DEF Init, TypeOK, Steps, Tables, Files, NoFile
<1> QED BY <1>1, <1>2 DEF Init, IInv, DescriptorsSound, LoneSaveSound, TrustSound, FailureSound,
                          Contended, Orderly, Readable, NoFile

\* The locked part of Add and Delete.
LEMMA ChangeSound ==
    ASSUME IInv, NEW c \in Clients, NEW changed, Change(c, changed), TypeOK'
    PROVE  IInv'
<1>1. /\ Saving' = Saving \cup {c}
      /\ c \notin Saving
      /\ Holders' = Holders
    BY DEF IInv, TypeOK, Change, Saving, Holders, Steps
<1>2. met' = IF Saving = {} THEN met ELSE met \cup Saving \cup {c}
    BY DEF Change
<1>3. (~up => Saving = {})' /\ DescriptorsSound'
    BY <1>1 DEF IInv, Change, DescriptorsSound, NoFile
<1>4. LoneSaveSound'
    BY <1>1, <1>2 DEF IInv, TypeOK, Change, LoneSaveSound, Saving
<1>5. TrustSound'
    <2>1. CASE Saving = {}
        <3>1. met = {} /\ met' = {} /\ Saving' = {c}
            BY <1>1, <1>2, <2>1 DEF IInv, LoneSaveSound
        <3> QED BY <2>1, <3>1 DEF IInv, TypeOK, Change, TrustSound, Readable
    <2>2. CASE Saving # {}
        BY <2>2 DEF Change, TrustSound
    <2> QED BY <2>1, <2>2
<1>6. FailureSound'
    BY <1>1 DEF IInv, TypeOK, Change, FailureSound, Contended, Orderly, Readable, Holders
<1> QED BY <1>3, <1>4, <1>5, <1>6 DEF IInv

\* persist's copy.
LEMMA CopySound ==
    ASSUME IInv, NEW c \in Clients, Copy(c), TypeOK'
    PROVE  IInv'
<1>1. Saving' = Saving /\ Holders' = Holders /\ c \notin Holders
    BY DEF IInv, TypeOK, Copy, Saving, Holders, Steps
<1>2. (~up => Saving = {})' /\ DescriptorsSound'
    BY <1>1 DEF IInv, Copy, DescriptorsSound, NoFile
<1>3. LoneSaveSound'
    BY <1>1 DEF IInv, TypeOK, Copy, LoneSaveSound, List, Empty
<1>4. TrustSound'
    BY <1>1 DEF IInv, Copy, TrustSound, Readable
<1>5. FailureSound'
    BY <1>1 DEF IInv, TypeOK, Copy, FailureSound, Contended, Orderly, Readable, Holders, List, Empty
<1> QED BY <1>2, <1>3, <1>4, <1>5 DEF IInv

\* The temporary file is truncated and open.
LEMMA OpenSound ==
    ASSUME IInv, NEW c \in Clients, Open(c), TypeOK'
    PROVE  IInv'
<1>1. /\ Saving' = Saving
      /\ Holders' = Holders \cup {c}
      /\ c \notin Holders /\ c \in Saving
      /\ tmp' = Empty /\ Empty # NoFile /\ path' = path
    BY DEF IInv, TypeOK, Open, OpenTmp, Saving, Holders, Steps, Empty, NoFile
<1>2. (~up => Saving = {})' /\ DescriptorsSound'
    BY <1>1 DEF IInv, TypeOK, Open, OpenTmp, DescriptorsSound
<1>3. LoneSaveSound'
    BY <1>1 DEF IInv, TypeOK, Open, OpenTmp, LoneSaveSound, Saving
<1>4. TrustSound'
    BY <1>1 DEF IInv, Open, OpenTmp, TrustSound, Readable
<1>5. FailureSound'
    BY <1>1 DEF IInv, TypeOK, Open, OpenTmp, FailureSound, Contended, Orderly, Readable
<1> QED BY <1>2, <1>3, <1>4, <1>5 DEF IInv

\* The copy is written, over whatever is there.
LEMMA WriteSound ==
    ASSUME IInv, NEW c \in Clients, Write(c), TypeOK'
    PROVE  IInv'
<1>1. /\ Saving' = Saving /\ Holders' = Holders /\ c \in Holders /\ c \in Saving
      /\ pc' = [pc EXCEPT ![c] = "renaming"]
    BY DEF IInv, TypeOK, Write, Saving, Holders, Steps
<1>2. PICK text \in Over(Held(c), List(copy[c])) : Put(c, text)
    BY DEF Write
<1>3. text \in {List(copy[c]), Torn} /\ (Held(c) = Empty => text = List(copy[c]))
    BY <1>2 DEF Over
<1>4. tmp' = NoFile <=> tmp = NoFile
    BY <1>2, <1>3 DEF IInv, DescriptorsSound, Put, List, Torn, NoFile
<1>5. ASSUME fd[c] = "tmp", tmp = Empty
      PROVE  tmp' = List(copy[c]) /\ path' = path
    BY <1>2, <1>3, <1>5 DEF Put, Held
<1>6. (~up => Saving = {})' /\ DescriptorsSound'
    BY <1>1, <1>4 DEF IInv, Write, DescriptorsSound
<1>7. LoneSaveSound'
    BY <1>1, <1>5 DEF IInv, TypeOK, Write, LoneSaveSound
<1>8. TrustSound'
    BY <1>1, <1>5 DEF IInv, Write, TrustSound, LoneSaveSound, Readable
<1>9. FailureSound'
    BY <1>1, <1>4, <1>5 DEF IInv, TypeOK, Write, FailureSound, Contended, Orderly, Readable
<1> QED BY <1>6, <1>7, <1>8, <1>9 DEF IInv

\* The file in place is replaced.
LEMMA RenameSound ==
    ASSUME IInv, NEW c \in Clients, Rename(c), TypeOK'
    PROVE  IInv'
<1>1. /\ Saving' = Saving \ {c} /\ Holders' = Holders \ {c}
      /\ c \in Holders /\ c \in Saving
      /\ pc' = [pc EXCEPT ![c] = "idle"] /\ met' = met \ {c}
    BY DEF IInv, TypeOK, Rename, Answered, Saving, Holders, Steps
<1>2. \A d \in Clients : /\ fd'[d] # "tmp"
                         /\ fd'[d] # "none" => d # c /\ fd[d] # "none"
    BY DEF IInv, TypeOK, Rename, Moved
<1>3. (~up => Saving = {})' /\ DescriptorsSound'
    BY <1>1, <1>2 DEF IInv, Rename, DescriptorsSound
<1>4. LoneSaveSound'
    BY <1>1 DEF IInv, LoneSaveSound
<1>5. TrustSound'
    <2>1. CASE c \in met
        BY <1>1, <2>1 DEF IInv, Rename, TrustSound, Readable
    <2>2. CASE c \notin met
        <3>1. Saving' = {} /\ path' = List(table)
            BY <1>1, <2>2 DEF IInv, Rename, LoneSaveSound, Holders
        <3> QED BY <2>2, <3>1 DEF Rename, TrustSound, Readable, List
    <2> QED BY <2>1, <2>2
<1>6. FailureSound'
    BY <1>1 DEF IInv, TypeOK, Rename, FailureSound, Contended, Orderly, Readable, List
<1> QED BY <1>3, <1>4, <1>5, <1>6 DEF IInv

\* A save fails, at any step.
LEMMA FailureStepSound ==
    ASSUME IInv, NEW c \in Clients, OpenFails(c) \/ WriteFails(c) \/ RenameFails(c), TypeOK'
    PROVE  IInv'
<1>1. /\ Saving' = Saving \ {c} /\ Holders' = Holders \ {c} /\ c \in Saving
      /\ fd' = [fd EXCEPT ![c] = "none"] /\ met' = met \ {c}
      /\ up' = up /\ table' = table /\ trust' = trust /\ failed' = TRUE
    BY DEF IInv, TypeOK, OpenFails, WriteFails, RenameFails, Fails, Answered, Saving, Holders, Steps
<1>2. (tmp = NoFile <=> tmp' = NoFile) /\ (fd[c] = "tmp" => path' = path)
    BY DEF IInv, DescriptorsSound, OpenFails, WriteFails, RenameFails, Put, Held, Torn, NoFile
<1>3. (~up => Saving = {})' /\ DescriptorsSound'
    BY <1>1, <1>2 DEF IInv, TypeOK, DescriptorsSound
<1>4. LoneSaveSound'
    BY <1>1 DEF IInv, LoneSaveSound
<1>5. TrustSound'
    <2>1. trust # "none" => path' = path
        BY <1>1, <1>2 DEF IInv, TrustSound, LoneSaveSound, OpenFails, WriteFails, RenameFails
    <2> QED BY <1>1, <2>1 DEF IInv, TrustSound, LoneSaveSound, Readable
<1>6. FailureSound'
    BY <1>1 DEF FailureSound
<1> QED BY <1>3, <1>4, <1>5, <1>6 DEF IInv

\* The process dies.
LEMMA CrashSound ==
    ASSUME IInv, Crash, TypeOK'
    PROVE  IInv'
<1>1. Saving' = {} /\ Holders' = {} /\ path' = path /\ tmp' = tmp
    BY DEF Crash, Saving, Holders
<1>2. (~up => Saving = {})' /\ DescriptorsSound' /\ LoneSaveSound'
    BY <1>1 DEF Crash, DescriptorsSound, LoneSaveSound
<1>3. TrustSound'
    BY <1>1 DEF IInv, Crash, TrustSound, Readable
<1>4. FailureSound'
    BY <1>1 DEF IInv, Crash, FailureSound, Contended, Orderly, Readable, Holders, Saving
<1> QED BY <1>2, <1>3, <1>4 DEF IInv

\* The process starts with the file as it is.
LEMMA StartSound ==
    ASSUME IInv, Start, TypeOK'
    PROVE  IInv'
<1>1. Saving = {} /\ Saving' = {} /\ Holders' = Holders
    BY DEF IInv, Start, Saving, Holders
<1>2. (~up => Saving = {})' /\ DescriptorsSound' /\ LoneSaveSound'
    BY <1>1 DEF IInv, Start, DescriptorsSound, LoneSaveSound
<1>3. TrustSound'
    BY <1>1 DEF Start, TrustSound, Readable
<1>4. FailureSound'
    BY <1>1 DEF IInv, Start, FailureSound, Contended, Orderly, Readable
<1> QED BY <1>2, <1>3, <1>4 DEF IInv

\* The invariant is inductive.
LEMMA StepSound == IInv /\ [Next]_vars => IInv'
<1> SUFFICES ASSUME IInv, [Next]_vars PROVE IInv'
    OBVIOUS
<1>1. TypeOK'
    BY TypeInductive DEF IInv
<1>2. ASSUME NEW c \in Clients, Add(c) \/ Delete(c) PROVE IInv'
    BY <1>1, <1>2, ChangeSound DEF Add, Delete
<1>3. ASSUME NEW c \in Clients, Save(c) PROVE IInv'
    BY <1>1, <1>3, CopySound, OpenSound, WriteSound, RenameSound, FailureStepSound DEF Save
<1>4. CASE UNCHANGED vars
    BY <1>1, <1>4 DEF vars, IInv, DescriptorsSound, LoneSaveSound, TrustSound, FailureSound,
                      Contended, Orderly, Readable, Saving, Holders
<1> QED BY <1>1, <1>2, <1>3, <1>4, CrashSound, StartSound DEF Next

\* It holds in every reachable state.
LEMMA Invariance == Spec => []IInv
BY InitSound, StepSound, PTL DEF Spec

\* Every variable of the records store keeps its type.
THEOREM TypeCorrect == Spec => []TypeOK
<1>1. IInv => TypeOK
    BY DEF IInv
<1> QED BY <1>1, Invariance, PTL

\* A save that met no other and succeeded leaves the table in the file, whatever
\* failed, overlapped or crashed before.
THEOREM LoneSaves == Spec => []LoneSaveIsCurrent
<1>1. IInv => LoneSaveIsCurrent
    BY DEF IInv, TrustSound, LoneSaveIsCurrent
<1> QED BY <1>1, Invariance, PTL

\* Changes made one at a time never leave a file that the next start refuses.
THEOREM FileKept == Spec => []LoneSavesKeepFile
<1>1. IInv => LoneSavesKeepFile
    BY DEF IInv, TrustSound, LoneSavesKeepFile
<1> QED BY <1>1, Invariance, PTL

\* However saves share their temporary file, a file that does not parse has shown in
\* a request that failed or was cut off.
THEOREM TornNoticed == Spec => []TornFileIsNoticed
<1>1. IInv => TornFileIsNoticed
    BY DEF IInv, FailureSound, Contended, Orderly, TornFileIsNoticed, Holders, Saving
<1> QED BY <1>1, Invariance, PTL
=============================================================================
