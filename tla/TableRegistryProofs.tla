------------------------- MODULE TableRegistryProofs -------------------------
(***************************************************************************)
(* The decision table registry, for every set of server processes on the   *)
(* directory, of tables, ids and versions, and any number of registrations, *)
(* crashes, failed writes and edited files.                                *)
(***************************************************************************)
EXTENDS TableRegistry, OperatorLemmas

-----------------------------------------------------------------------------
(* The type invariant, with what a process that has files to read knows of *)
(* the directory.                                                          *)
Typed ==
  /\ phase \in [Processes -> {"down", "loading", "serving", "saving",
                              "truncated"}]
  /\ registry \in [Processes -> Seq(Entries)]
  /\ unread \in [Processes -> SUBSET Files]
  /\ saving \in [Processes -> Entries \cup {Nothing}]
  /\ run \in [Processes -> Nat]
  /\ disk \in [Files -> Records \cup {NoFile, Torn}]
  /\ \A p \in Processes :
       /\ saving[p] # Nothing <=> phase[p] \in {"saving", "truncated"}
       /\ unread[p] # {} <=> phase[p] = "loading"
       /\ unread[p] \subseteq Listed
       /\ saving[p] # Nothing => Call(p, saving[p]) \in registered
  /\ registered \subseteq [by : Processes, key : Keys, table : Tables]
  /\ acked \subseteq registered
  /\ calls \in 0..MaxCalls /\ crashes \in 0..MaxCrashes
  /\ faults \in 0..MaxFaults

(* A process that is loading has a next file, which is there.              *)
LEMMA NextIsListed ==
  ASSUME Typed, NEW p \in Processes, phase[p] = "loading"
  PROVE  /\ NextFile(p) \in unread[p] /\ NextFile(p) \in Files
         /\ disk[NextFile(p)] # NoFile
<1> DEFINE ranks == {FileRank(f) : f \in unread[p]}
<1>1. unread[p] # {} /\ unread[p] \subseteq Listed
  BY DEF Typed
<1>2. \A f \in unread[p] : FileRank(f) \in Nat
  BY <1>1, RankAssumption DEF Listed, Files, FileName
<1>3. ranks \in SUBSET Nat /\ ranks # {}
  BY <1>1, <1>2
<1>4. \E m \in ranks : \A k \in ranks : m <= k
  <2> HIDE DEF ranks
  <2> QED BY <1>3, LeastElement
<1>5. \E f \in unread[p] : \A g \in unread[p] : FileRank(f) <= FileRank(g)
  BY <1>4
<1>6. NextFile(p) \in unread[p]
  BY <1>5 DEF NextFile
<1> QED BY <1>1, <1>6 DEF Listed

(* A file that the loader accepts holds a record whose hash is right, and  *)
(* that conflicts with nothing held.                                       *)
LEMMA NextIsRecord ==
  ASSUME Typed, NEW p \in Processes, phase[p] = "loading",
         Accepted(p, NextFile(p))
  PROVE  /\ disk[NextFile(p)] \in Records
         /\ ~Conflict(p, disk[NextFile(p)].key, disk[NextFile(p)].table)
         /\ disk[NextFile(p)].hash = disk[NextFile(p)].table
BY NextIsListed DEF Typed, Accepted, Registrable

(***************************************************************************)
(* register adds the entry to what the process holds, or finds it there.   *)
(***************************************************************************)
LEMMA EntryIsHeld ==
  ASSUME Typed, NEW p \in Processes, NEW key, Holds(p, key)
  PROVE  /\ EntryOf(p, key) \in Held(p) /\ EntryOf(p, key).key = key
         /\ EntryOf(p, key) \in Entries
<1>1. \E e \in Held(p) : e.key = key
  BY DEF Holds
<1>2. EntryOf(p, key) \in Held(p) /\ EntryOf(p, key).key = key
  BY <1>1 DEF EntryOf
<1>3. Held(p) \subseteq Entries
  BY DEF Typed, Held, ToSet
<1> QED BY <1>2, <1>3

(* A registration without a conflict leaves the entry in the registry of   *)
(* its process, and the other registries alone.                            *)
LEMMA RegisterHolds ==
  ASSUME Typed, NEW p \in Processes, NEW key \in Keys, NEW table \in Tables,
         ~Conflict(p, key, table),
         registry' = [registry EXCEPT ![p] = Registering(p, key, table)]
  PROVE  /\ registry' \in [Processes -> Seq(Entries)]
         /\ Held(p)' = Held(p) \cup {[key |-> key, table |-> table]}
         /\ \A q \in Processes \ {p} : Held(q)' = Held(q)
         /\ Holds(p, key) => [key |-> key, table |-> table] \in Held(p)
<1> DEFINE e == [key |-> key, table |-> table]
           s == registry[p]
<1>1. e \in Entries /\ s \in Seq(Entries)
  BY DEF Entries, Typed
<1>2. /\ \A q \in Processes \ {p} : registry'[q] = registry[q]
      /\ registry'[p] = Registering(p, key, table)
  BY DEF Typed
<1>3. CASE Holds(p, key)
  <2>1. registry' = registry
    BY <1>3 DEF Registering, Typed
  <2>2. EntryOf(p, key) = e
    <3>1. EntryOf(p, key) \in Entries /\ EntryOf(p, key).key = key
      BY <1>3, EntryIsHeld
    <3>2. EntryOf(p, key).table = table
      BY <1>3 DEF Conflict
    <3> QED BY <3>1, <3>2 DEF Entries
  <2>3. e \in Held(p)
    BY <1>3, <2>2, EntryIsHeld
  <2>4. \A q \in Processes : Held(q)' = Held(q)
    BY <2>1 DEF Held
  <2> QED BY <2>1, <2>3, <2>4 DEF Typed
<1>4. CASE ~Holds(p, key)
  <2>1. registry'[p] = Append(s, e)
    BY <1>2, <1>4 DEF Registering
  <2> HIDE DEF e
  <2>2. /\ Append(s, e) \in Seq(Entries)
        /\ Len(Append(s, e)) = Len(s) + 1
        /\ \A i \in 1..Len(s) : Append(s, e)[i] = s[i]
        /\ Append(s, e)[Len(s) + 1] = e
        /\ Len(s) \in Nat /\ DOMAIN s = 1..Len(s)
        /\ DOMAIN Append(s, e) = 1..(Len(s) + 1)
    <3>1. Append(s, e) \in Seq(Entries) /\ Len(s) \in Nat
      BY <1>1, AppendProperties
    <3> QED BY <1>1, <3>1, AppendProperties, LenProperties
  <2>3. ToSet(Append(s, e)) = ToSet(s) \cup {e}
    <3> DEFINE t == Append(s, e)
    <3>1. /\ \A i \in 1..Len(s) : t[i] = s[i]
          /\ t[Len(s) + 1] = e /\ Len(s) \in Nat
          /\ DOMAIN s = 1..Len(s) /\ DOMAIN t = 1..(Len(s) + 1)
      BY <2>2
    <3> HIDE DEF t, s
    <3> QED BY <3>1 DEF ToSet, t
  <2>4. Held(p)' = Held(p) \cup {e}
    BY <2>1, <2>3 DEF Held
  <2>5. \A q \in Processes \ {p} : Held(q)' = Held(q)
    BY <1>2 DEF Held
  <2>6. registry' \in [Processes -> Seq(Entries)]
    BY <2>1, <2>2 DEF Typed
  <2> QED BY <1>4, <2>4, <2>5, <2>6 DEF e
<1> QED BY <1>3, <1>4

(* Registries and files are well formed in every reachable state; a        *)
(* process has files left to read exactly while it loads, and saves only   *)
(* what it was asked to register.                                          *)
THEOREM TypeInvariant == Spec => []Typed
<1>1. Init => Typed
  <2> SUFFICES ASSUME Init PROVE Typed
    OBVIOUS
  <2>1. registry \in [Processes -> Seq(Entries)]
    BY DEF Init
  <2>2. /\ saving \in [Processes -> Entries \cup {Nothing}]
        /\ unread \in [Processes -> SUBSET Files]
        /\ run \in [Processes -> Nat]
        /\ disk \in [Files -> Records \cup {NoFile, Torn}]
        /\ phase \in [Processes -> {"down", "loading", "serving", "saving",
                                    "truncated"}]
    BY DEF Init
  <2> QED BY <2>1, <2>2, RegistryBounds DEF Init, Typed
<1>2. Typed /\ [Next]_vars => Typed'
  <2> SUFFICES ASSUME Typed, [Next]_vars PROVE Typed'
    OBVIOUS
  <2> USE DEF counters, history
  <2>1. ASSUME NEW p \in Processes, Start(p) PROVE Typed'
    <3>1. Listed' = Listed
      BY <2>1 DEF Start, Listed
    <3>2. Listed \in SUBSET Files
      BY DEF Listed
    <3>3. saving[p] = Nothing
      BY <2>1 DEF Start, Typed
    <3> QED BY <2>1, <3>1, <3>2, <3>3 DEF Start, Typed
  <2>2. ASSUME NEW p \in Processes, LoadFile(p) PROVE Typed'
    <3> DEFINE f == NextFile(p)
    <3>1. disk[f] \in Records /\ ~Conflict(p, disk[f].key, disk[f].table)
      BY <2>2, NextIsRecord DEF LoadFile
    <3>2. registry' = [registry EXCEPT ![p] =
                         Registering(p, disk[f].key, disk[f].table)]
      BY <2>2 DEF LoadFile, LoadRegistering
    <3>3. disk[f].key \in Keys /\ disk[f].table \in Tables
      BY <3>1 DEF Records
    <3>4. registry' \in [Processes -> Seq(Entries)]
      BY <3>1, <3>2, <3>3, RegisterHolds
    <3>5. Listed' = Listed
      BY <2>2 DEF LoadFile, Listed
    <3>6. saving[p] = Nothing
      BY <2>2 DEF LoadFile, Typed
    <3> QED BY <2>2, <3>4, <3>5, <3>6 DEF LoadFile, Typed
  <2>3. ASSUME NEW p \in Processes, LoadRefuses(p) PROVE Typed'
    <3>1. Listed' = Listed
      BY <2>3 DEF LoadRefuses, Listed
    <3>2. registry' \in [Processes -> Seq(Entries)]
      BY <2>3 DEF LoadRefuses, Typed
    <3>3. saving[p] = Nothing
      BY <2>3 DEF LoadRefuses, Typed
    <3> QED BY <2>3, <3>1, <3>2, <3>3 DEF LoadRefuses, Typed
  <2>4. ASSUME NEW p \in Processes, NEW key \in Keys, NEW table \in Tables,
               Register(p, key, table)
        PROVE  Typed'
    <3>1. registry' \in [Processes -> Seq(Entries)]
      BY <2>4, RegisterHolds DEF Register
    <3>2. Listed' = Listed
      BY <2>4 DEF Register, Listed
    <3>3. [key |-> key, table |-> table] \in Entries
      BY DEF Entries
    <3>4. [key |-> key, table |-> table] # Nothing
      BY <3>3, AbsenceAssumption
    <3>5. /\ phase' = [phase EXCEPT ![p] = "saving"] /\ phase[p] = "serving"
          /\ saving' = [saving EXCEPT ![p] = [key |-> key, table |-> table]]
          /\ UNCHANGED <<unread, run, disk, acked, receipts, crashes, faults>>
      BY <2>4 DEF Register
    <3>6. registered' \subseteq [by : Processes, key : Keys, table : Tables]
          /\ acked' \subseteq registered'
      BY <2>4 DEF Register, Typed
    <3>8. \A q \in Processes :
            saving'[q] # Nothing => Call(q, saving'[q]) \in registered'
      BY <2>4 DEF Register, Typed, Call
    <3>7. calls' \in 0..MaxCalls
      BY <2>4, RegistryBounds DEF Register, Typed
    <3> QED BY <3>1, <3>2, <3>3, <3>4, <3>5, <3>6, <3>7, <3>8 DEF Typed
  <2>5. ASSUME NEW p \in Processes, Truncate(p) PROVE Typed'
    <3>1. Listed \subseteq Listed'
      BY <2>5, AbsenceAssumption DEF Truncate, Listed, Typed
    <3> QED BY <2>5, <3>1 DEF Truncate, Typed
  <2>6. ASSUME NEW p \in Processes, Write(p) PROVE Typed'
    <3> DEFINE e == saving[p]
               r == [key |-> e.key, table |-> e.table, hash |-> e.table]
    <3>1. /\ e \in Entries /\ phase[p] = "truncated"
      BY <2>6 DEF Write, Typed
    <3>2. r \in Records
      BY <3>1 DEF Entries, Records
    <3>3. PICK content \in {r, Torn} :
            disk' = [disk EXCEPT ![FileName(e.key)] = content]
      BY <2>6 DEF Write
    <3>7. content # NoFile /\ content \in Records \cup {Torn}
      BY <3>2, AbsenceAssumption
    <3>4. Listed \subseteq Listed'
      BY <3>3, <3>7 DEF Listed, Typed
    <3>5. disk' \in [Files -> Records \cup {NoFile, Torn}]
      BY <3>3, <3>7 DEF Typed
    <3>6. acked' \subseteq registered
      BY <2>6, AbsenceAssumption DEF Write, Typed
    <3> QED BY <2>6, <3>4, <3>5, <3>6 DEF Write, Typed
  <2>7. ASSUME NEW p \in Processes, SaveFails(p) PROVE Typed'
    <3>1. Listed' = Listed
      BY <2>7 DEF SaveFails, Listed
    <3> QED BY <2>7, <3>1, RegistryBounds DEF SaveFails, Typed
  <2>8. ASSUME NEW p, NEW entry, NEW latest, Answer(p, entry, latest)
        PROVE  Typed'
    <3>1. Listed' = Listed
      BY <2>8 DEF Answer, Listed
    <3> QED BY <2>8, <3>1 DEF Answer, Typed
  <2>9. ASSUME NEW p \in Processes, Crash(p) PROVE Typed'
    <3>1. Listed' = Listed
      BY <2>9 DEF Crash, Listed
    <3>2. registry' \in [Processes -> Seq(Entries)]
      BY <2>9 DEF Crash, Typed
    <3> QED BY <2>9, <3>1, <3>2, RegistryBounds DEF Crash, Typed
  <2>10. ASSUME NEW file \in Files, NEW table \in Tables, Edit(file, table)
         PROVE  Typed'
    <3>1. disk' \in [Files -> Records \cup {NoFile, Torn}]
          /\ disk'[file] \in Records
      BY <2>10 DEF Edit, Typed, Records
    <3>2. Listed \subseteq Listed'
      BY <2>10, <3>1, AbsenceAssumption DEF Edit, Listed, Typed
    <3> QED BY <2>10, <3>1, <3>2, RegistryBounds DEF Edit, Typed
  <2>11. CASE UNCHANGED vars
    BY <2>11 DEF vars, Typed, Listed
  <2> QED BY <2>1, <2>2, <2>3, <2>4, <2>5, <2>6, <2>7, <2>8, <2>9, <2>10, <2>11
          DEF Next, ProcessStep, EvaluateVersion, EvaluateLatest
<1> QED BY <1>1, <1>2, PTL DEF Spec

(* TypeOK is a consequence: what a process has in hand fits its phase.     *)
THEOREM TypeCorrect == Spec => []TypeOK
<1>1. Typed => TypeOK
  <2> SUFFICES ASSUME Typed PROVE TypeOK
    OBVIOUS
  <2>1. \A p \in Processes : Held(p) \subseteq Entries
    BY DEF Typed, Held, ToSet
  <2>2. EntriesOf(registered) \subseteq Entries
    BY DEF Typed, EntriesOf, Entries
  <2> QED BY <2>1, <2>2 DEF Typed, TypeOK
<1> QED BY <1>1, TypeInvariant, PTL

-----------------------------------------------------------------------------
(***************************************************************************)
(* What a step can do to what the processes hold: one process adds an      *)
(* entry, one process ends and forgets everything, or nothing.             *)
(***************************************************************************)
Adds(p, e) ==
  /\ Held(p)' = Held(p) \cup {e}
  /\ Holds(p, e.key) => e \in Held(p)
  /\ \A q \in Processes \ {p} : Held(q)' = Held(q)

Forgets(p) ==
  /\ (LoadRefuses(p) \/ Crash(p)) /\ phase'[p] = "down"
  /\ Held(p)' = {}
  /\ \A q \in Processes \ {p} : Held(q)' = Held(q) /\ phase'[q] = phase[q]
  /\ UNCHANGED <<disk, registered, acked, receipts, run>>

(* The table that a process reads from its next file. *)
NextEntry(p) ==
  [key |-> disk[NextFile(p)].key, table |-> disk[NextFile(p)].table]

Loads(p) ==
  /\ LoadFile(p) /\ Adds(p, NextEntry(p))
  /\ disk[NextFile(p)] \in Records
  /\ disk[NextFile(p)].hash = disk[NextFile(p)].table
  /\ NextEntry(p) \in Entries

Registers(p, key, table) ==
  /\ Register(p, key, table)
  /\ Adds(p, [key |-> key, table |-> table])

Keeps ==
  /\ \A q \in Processes : Held(q)' = Held(q)
  /\ \/ \E p \in Processes : Start(p) \/ Truncate(p) \/ Write(p) \/ SaveFails(p)
     \/ \E p \in Processes, key \in Keys : EvaluateVersion(p, key)
     \/ \E p \in Processes, id \in {k.id : k \in Keys} : EvaluateLatest(p, id)
     \/ \E file \in Files, table \in Tables : Edit(file, table)
     \/ UNCHANGED vars

(* Every step registers an entry, loads a file, forgets a registry, or     *)
(* leaves what every process holds as it was.                              *)
LEMMA StepKinds ==
  ASSUME Typed, [Next]_vars
  PROVE  \/ \E p \in Processes, key \in Keys, table \in Tables :
              Registers(p, key, table)
         \/ \E p \in Processes : Loads(p) \/ Forgets(p)
         \/ Keeps
<1>1. ASSUME NEW p \in Processes, NEW key \in Keys, NEW table \in Tables,
             Register(p, key, table)
      PROVE  Registers(p, key, table)
  BY <1>1, RegisterHolds DEF Register, Registers, Adds
<1>2. ASSUME NEW p \in Processes, LoadFile(p) PROVE Loads(p)
  <2> DEFINE r == disk[NextFile(p)]
  <2>1. r \in Records /\ ~Conflict(p, r.key, r.table) /\ r.hash = r.table
    BY <1>2, NextIsRecord DEF LoadFile
  <2>2. registry' = [registry EXCEPT ![p] = Registering(p, r.key, r.table)]
    BY <1>2 DEF LoadFile, LoadRegistering
  <2>3. r.key \in Keys /\ r.table \in Tables
    BY <2>1 DEF Records
  <2> HIDE DEF r
  <2>4. Adds(p, [key |-> r.key, table |-> r.table])
    BY <2>1, <2>2, <2>3, RegisterHolds DEF Adds
  <2>5. NextEntry(p) \in Entries
    BY <2>3 DEF NextEntry, Entries, r
  <2> QED BY <1>2, <2>1, <2>4, <2>5 DEF Loads, NextEntry, r
<1>3. ASSUME NEW p \in Processes, LoadRefuses(p) \/ Crash(p) PROVE Forgets(p)
  <2>1. /\ registry' = [registry EXCEPT ![p] = <<>>]
        /\ phase' = [phase EXCEPT ![p] = "down"]
        /\ UNCHANGED <<disk, registered, acked, receipts, run>>
    BY <1>3 DEF LoadRefuses, Crash, history
  <2>2. registry'[p] = <<>> /\ DOMAIN <<>> = {}
    BY <2>1 DEF Typed
  <2>3. Held(p)' = {}
    BY <2>2 DEF Held, ToSet
  <2>4. \A q \in Processes \ {p} : Held(q)' = Held(q) /\ phase'[q] = phase[q]
    BY <2>1 DEF Held, Typed
  <2> QED BY <1>3, <2>1, <2>3, <2>4 DEF Forgets, Typed
<1>4. registry' = registry => \A q \in Processes : Held(q)' = Held(q)
  BY DEF Held
<1>5. ASSUME NEW p \in Processes,
             Start(p) \/ Truncate(p) \/ Write(p) \/ SaveFails(p)
      PROVE  Keeps
  <2>1. registry' = registry
    BY <1>5 DEF Start, Truncate, Write, SaveFails
  <2> QED BY <1>4, <1>5, <2>1 DEF Keeps
<1>6. ASSUME NEW p \in Processes, NEW key \in Keys, EvaluateVersion(p, key)
      PROVE  Keeps
  BY <1>4, <1>6 DEF Keeps, EvaluateVersion, Answer
<1>7. ASSUME NEW p \in Processes, NEW id \in {k.id : k \in Keys},
             EvaluateLatest(p, id)
      PROVE  Keeps
  BY <1>4, <1>7 DEF Keeps, EvaluateLatest, Answer
<1>8. ASSUME NEW file \in Files, NEW table \in Tables, Edit(file, table)
      PROVE  Keeps
  BY <1>4, <1>8 DEF Keeps, Edit
<1>9. UNCHANGED vars => Keeps
  BY <1>4 DEF Keeps, vars
<1> QED BY <1>1, <1>2, <1>3, <1>5, <1>6, <1>7, <1>8, <1>9 DEF Next, ProcessStep

(***************************************************************************)
(* Every entry a process holds, and every hash a file records, is of a     *)
(* registration: a file that was edited has a table that is not its hash.  *)
(***************************************************************************)
Known ==
  /\ \A p \in Processes : Held(p) \subseteq EntriesOf(registered)
  /\ \A f \in Files : disk[f] \in Records =>
       [key |-> disk[f].key, table |-> disk[f].hash] \in EntriesOf(registered)

(* Only registered content is held or written with its hash.               *)
LEMMA KnownInvariant == Spec => []Known
<1>1. Init => Known
  <2> SUFFICES ASSUME Init PROVE Known
    OBVIOUS
  <2>1. \A p \in Processes : Held(p) = {}
    BY DEF Init, Held, ToSet
  <2>2. \A f \in Files : disk[f] \notin Records
    BY AbsenceAssumption DEF Init
  <2> QED BY <2>1, <2>2 DEF Known
<1>2. Typed /\ Known /\ [Next]_vars => Known'
  <2> SUFFICES ASSUME Typed, Known, [Next]_vars PROVE Known'
    OBVIOUS
  <2>1. registered \subseteq registered'
        => EntriesOf(registered) \subseteq EntriesOf(registered')
    BY DEF EntriesOf
  <2>2. ASSUME NEW p \in Processes, NEW key \in Keys, NEW table \in Tables,
               Registers(p, key, table)
        PROVE  Known'
    <3>1. /\ [by |-> p, key |-> key, table |-> table] \in registered'
          /\ registered \subseteq registered' /\ disk' = disk
      BY <2>2 DEF Registers, Register
    <3>2. [key |-> key, table |-> table] \in EntriesOf(registered')
      BY <3>1 DEF EntriesOf
    <3> QED BY <2>1, <2>2, <3>1, <3>2 DEF Registers, Adds, Known
  <2>3. ASSUME NEW p \in Processes, Loads(p) PROVE Known'
    <3>1. registered' = registered /\ disk' = disk
      BY <2>3 DEF Loads, LoadFile, history
    <3>2. NextFile(p) \in Files
      BY <2>3, NextIsListed DEF Loads, LoadFile
    <3>3. NextEntry(p) \in EntriesOf(registered)
      BY <2>3, <3>2 DEF Loads, Known, NextEntry
    <3> QED BY <2>3, <3>1, <3>3 DEF Loads, Adds, Known
  <2>4. ASSUME NEW p \in Processes, Forgets(p) PROVE Known'
    BY <2>4 DEF Forgets, Known
  <2>5. CASE Keeps
    <3>1. registered' = registered
      BY <2>5 DEF Keeps, Start, Truncate, Write, SaveFails, EvaluateVersion,
                  EvaluateLatest, Answer, Edit, vars, history
    <3>2. ASSUME NEW f \in Files, disk'[f] \in Records
          PROVE  [key |-> disk'[f].key, table |-> disk'[f].hash]
                   \in EntriesOf(registered)
      <4>1. CASE disk' = disk
        BY <3>2, <4>1 DEF Known
      <4>2. ASSUME NEW p \in Processes, Truncate(p)
            PROVE  [key |-> disk'[f].key, table |-> disk'[f].hash]
                     \in EntriesOf(registered)
        <5>1. disk'[f] = disk[f]
          BY <3>2, <4>2, AbsenceAssumption DEF Truncate, Typed
        <5> QED BY <3>2, <5>1 DEF Known
      <4>3. ASSUME NEW p \in Processes, Write(p)
            PROVE  [key |-> disk'[f].key, table |-> disk'[f].hash]
                     \in EntriesOf(registered)
        <5> DEFINE r == [key |-> saving[p].key, table |-> saving[p].table,
                         hash |-> saving[p].table]
        <5>1. CASE disk'[f] = disk[f]
          BY <3>2, <5>1 DEF Known
        <5>2. CASE disk'[f] # disk[f]
          <6>3. disk'[f] \in {r, Torn}
            <7>1. PICK content \in {r, Torn} :
                    disk' = [disk EXCEPT ![FileName(saving[p].key)] = content]
              BY <4>3 DEF Write
            <7> QED BY <3>2, <5>2, <7>1 DEF Typed
          <6>1. /\ disk'[f].key = saving[p].key
                /\ disk'[f].hash = saving[p].table
            BY <3>2, <6>3, AbsenceAssumption
          <6>2. Call(p, saving[p]) \in registered
            BY <4>3 DEF Write, Typed
          <6> QED BY <6>1, <6>2 DEF EntriesOf, Call
        <5> QED BY <5>1, <5>2
      <4>4. ASSUME NEW file \in Files, NEW table \in Tables, Edit(file, table)
            PROVE  [key |-> disk'[f].key, table |-> disk'[f].hash]
                     \in EntriesOf(registered)
        <5>1. CASE f # file
          BY <3>2, <4>4, <5>1 DEF Edit, Typed, Known
        <5>2. CASE f = file
          <6>1. /\ disk[f] \in Records /\ disk'[f].key = disk[f].key
                /\ disk'[f].hash = disk[f].hash
            BY <4>4, <5>2 DEF Edit, Typed, Records
          <6> QED BY <6>1 DEF Known
        <5> QED BY <5>1, <5>2
      <4> QED BY <2>5, <4>1, <4>2, <4>3, <4>4
              DEF Keeps, Start, SaveFails, EvaluateVersion, EvaluateLatest,
                  Answer, vars
    <3> QED BY <2>5, <3>1, <3>2 DEF Keeps, Known
  <2> QED BY <2>2, <2>3, <2>4, <2>5, StepKinds
<1> QED BY <1>1, <1>2, TypeInvariant, PTL DEF Spec

(***************************************************************************)
(* No process serves a table that was not registered under its id and      *)
(* version, whatever became of the files meanwhile.                        *)
(***************************************************************************)
THEOREM ServedWereRegistered == Spec => []ServedTablesWereRegistered
<1>1. Known => ServedTablesWereRegistered
  BY DEF Known, ServedTablesWereRegistered
<1> QED BY <1>1, KnownInvariant, PTL

-----------------------------------------------------------------------------
(***************************************************************************)
(* A process holds one content under an id and version, and what it is     *)
(* saving is among it.  What a receipt of its present run names it holds.  *)
(***************************************************************************)
OneContent ==
  \A p \in Processes : \A d, e \in Held(p) : d.key = e.key => d = e

SavingHeld == \A p \in Processes : saving[p] # Nothing => saving[p] \in Held(p)

(* A process holds one content per key.                                    *)
LEMMA OneContentInvariant == Spec => []OneContent
<1>1. Init => OneContent
  BY DEF Init, Held, ToSet, OneContent
<1>2. Typed /\ OneContent /\ [Next]_vars => OneContent'
  <2> SUFFICES ASSUME Typed, OneContent, [Next]_vars PROVE OneContent'
    OBVIOUS
  <2>1. ASSUME NEW p \in Processes, NEW e, Adds(p, e) PROVE OneContent'
    BY <2>1 DEF Adds, Holds, OneContent
  <2>2. ASSUME NEW p \in Processes, Forgets(p) PROVE OneContent'
    BY <2>2 DEF Forgets, OneContent
  <2>3. CASE Keeps
    BY <2>3 DEF Keeps, OneContent
  <2> QED BY <2>1, <2>2, <2>3, StepKinds DEF Registers, Loads
<1> QED BY <1>1, <1>2, TypeInvariant, PTL DEF Spec

(* What is being saved is held.                                            *)
LEMMA SavingInvariant == Spec => []SavingHeld
<1>1. Init => SavingHeld
  BY DEF Init, SavingHeld
<1>2. Typed /\ SavingHeld /\ [Next]_vars => SavingHeld'
  <2> SUFFICES ASSUME Typed, SavingHeld, [Next]_vars PROVE SavingHeld'
    OBVIOUS
  <2>1. ASSUME NEW p \in Processes, NEW key \in Keys, NEW table \in Tables,
               Registers(p, key, table)
        PROVE  SavingHeld'
    BY <2>1 DEF Registers, Register, Adds, SavingHeld, Typed
  <2>2. ASSUME NEW p \in Processes, Loads(p) PROVE SavingHeld'
    BY <2>2 DEF Loads, LoadFile, Adds, SavingHeld, Typed
  <2>3. ASSUME NEW p \in Processes, Forgets(p) PROVE SavingHeld'
    <3>1. \A q \in Processes \ {p} : saving'[q] = saving[q]
      BY <2>3 DEF Forgets, LoadRefuses, Crash, Typed
    <3>2. saving'[p] = Nothing
      BY <2>3 DEF Forgets, LoadRefuses, Crash, Typed
    <3> QED BY <2>3, <3>1, <3>2 DEF Forgets, SavingHeld
  <2>4. CASE Keeps
    <3>1. \A q \in Processes : saving'[q] \in {saving[q], Nothing}
      BY <2>4 DEF Keeps, Start, Truncate, Write, SaveFails, EvaluateVersion,
                  EvaluateLatest, Answer, Edit, vars, Typed
    <3> QED BY <2>4, <3>1 DEF Keeps, SavingHeld
  <2> QED BY <2>1, <2>2, <2>3, <2>4, StepKinds
<1> QED BY <1>1, <1>2, TypeInvariant, PTL DEF Spec

(***************************************************************************)
(* The order of Python's tuples is total and transitive: what is not after *)
(* another is before it or equal.                                          *)
(***************************************************************************)
LEMMA TuplesOrdered ==
  ASSUME NEW a \in Seq(Nat), NEW b \in Seq(Nat), ~ Precedes(b, a)
  PROVE  Precedes(a, b) \/ a = b
<1> DEFINE Shared == {i \in 1..Len(b) : i <= Len(a) /\ a[i] # b[i]}
<1>1. /\ Len(a) \in Nat /\ Len(b) \in Nat
      /\ \A i \in 1..Len(a) : a[i] \in Nat
      /\ \A i \in 1..Len(b) : b[i] \in Nat
      /\ a \in [1..Len(a) -> Nat] /\ b \in [1..Len(b) -> Nat]
  BY LenProperties
<1>2. CASE Shared = {}
  <2>1. \A i \in 1..Len(b) : i <= Len(a) => a[i] = b[i]
    BY <1>2
  <2>2. CASE Len(a) = Len(b)
    BY <1>1, <2>1, <2>2
  <2>3. CASE Len(a) < Len(b)
    <3> DEFINE n == Len(a) + 1
    <3>1. n \in 1..Len(b) /\ n > Len(a) /\ n - 1 = Len(a)
      BY <1>1, <2>3
    <3>2. \A j \in 1..Len(a) : j <= Len(a) /\ a[j] = b[j]
      BY <1>1, <2>1, <2>3
    <3> HIDE DEF n
    <3> QED BY <3>1, <3>2 DEF Precedes
  <2>4. CASE Len(b) < Len(a)
    <3> DEFINE n == Len(b) + 1
    <3>1. n \in 1..Len(a) /\ n > Len(b) /\ n - 1 = Len(b)
      BY <1>1, <2>4
    <3>2. \A j \in 1..Len(b) : j <= Len(b) /\ b[j] = a[j]
      BY <1>1, <2>1, <2>4
    <3> HIDE DEF n
    <3>3. Precedes(b, a)
      BY <3>1, <3>2 DEF Precedes
    <3> QED BY <3>3
  <2>5. \A m, n \in Nat : m = n \/ m < n \/ n < m
    OBVIOUS
  <2>6. Len(a) = Len(b) \/ Len(a) < Len(b) \/ Len(b) < Len(a)
    BY <1>1, <2>5
  <2> QED BY <2>2, <2>3, <2>4, <2>6
<1>3. CASE Shared # {}
  <2>1. PICK i \in Shared : \A k \in Shared : i <= k
    <3>1. Shared \in SUBSET Nat
      BY <1>1
    <3> HIDE DEF Shared
    <3> QED BY <1>3, <3>1, LeastElement
  <2>2. /\ i \in 1..Len(b) /\ i \in 1..Len(a) /\ a[i] # b[i]
        /\ a[i] \in Nat /\ b[i] \in Nat
    BY <1>1, <2>1
  <2>3. \A j \in 1..(i - 1) : j <= Len(a) /\ j <= Len(b) /\ a[j] = b[j]
    BY <1>1, <2>1, <2>2
  <2>4. CASE a[i] < b[i]
    BY <2>2, <2>3, <2>4 DEF Precedes
  <2>5. CASE b[i] < a[i]
    BY <2>2, <2>3, <2>5 DEF Precedes
  <2> QED BY <2>2, <2>4, <2>5
<1> QED BY <1>2, <1>3

(* Before is transitive.                                                   *)
LEMMA TuplesTransitive ==
  ASSUME NEW a \in Seq(Nat), NEW b \in Seq(Nat), NEW c \in Seq(Nat),
         Precedes(a, b), Precedes(b, c)
  PROVE  Precedes(a, c)
<1>1. /\ Len(a) \in Nat /\ Len(b) \in Nat /\ Len(c) \in Nat
      /\ \A i \in 1..Len(a) : a[i] \in Nat
      /\ \A i \in 1..Len(b) : b[i] \in Nat
      /\ \A i \in 1..Len(c) : c[i] \in Nat
  BY LenProperties
<1>2. PICK i \in 1..Len(b) :
        /\ \A j \in 1..(i - 1) : j <= Len(a) /\ a[j] = b[j]
        /\ i > Len(a) \/ a[i] < b[i]
  BY DEF Precedes
<1>3. PICK k \in 1..Len(c) :
        /\ \A j \in 1..(k - 1) : j <= Len(b) /\ b[j] = c[j]
        /\ k > Len(b) \/ b[k] < c[k]
  BY DEF Precedes
<1>4. i \in Nat /\ k \in Nat /\ 1 <= i /\ 1 <= k
  BY <1>1, <1>2, <1>3
<1>5. CASE i < k
  <2>1. i \in 1..(k - 1) /\ i \in 1..Len(c) /\ b[i] = c[i]
    BY <1>1, <1>3, <1>4, <1>5
  <2>2. \A j \in 1..(i - 1) : j <= Len(a) /\ a[j] = c[j]
    BY <1>2, <1>3, <1>4, <1>5
  <2> QED BY <1>2, <2>1, <2>2 DEF Precedes
<1>6. CASE k <= i
  <2>1. k \in 1..Len(b) /\ b[k] < c[k]
    BY <1>1, <1>2, <1>3, <1>4, <1>6
  <2>2. \A j \in 1..(k - 1) : j <= Len(a) /\ a[j] = c[j]
    BY <1>2, <1>3, <1>4, <1>6
  <2>3. k > Len(a) \/ a[k] < c[k]
    <3>1. CASE k = i
      <4>1. CASE k > Len(a)
        BY <4>1
      <4>2. CASE k <= Len(a)
        <5>1. a[k] < b[k] /\ a[k] \in Nat /\ b[k] \in Nat /\ c[k] \in Nat
          BY <1>1, <1>2, <1>3, <1>4, <2>1, <3>1, <4>2
        <5>2. \A x, y, z \in Nat : x < y /\ y < z => x < z
          OBVIOUS
        <5>3. a[k] < c[k]
          BY <2>1, <5>1, <5>2
        <5> QED BY <5>3
      <4> QED BY <1>1, <1>4, <4>1, <4>2
    <3>2. CASE k < i
      <4>1. k \in 1..(i - 1)
        BY <1>4, <3>2
      <4>2. a[k] = b[k]
        BY <1>2, <4>1
      <4> QED BY <2>1, <4>2
    <3> QED BY <1>4, <1>6, <3>1, <3>2
  <2> QED BY <2>2, <2>3 DEF Precedes
<1> QED BY <1>4, <1>5, <1>6

(* Nothing comes before itself.                                            *)
LEMMA TuplesIrreflexive ==
  ASSUME NEW a \in Seq(Nat)
  PROVE  ~ Precedes(a, a)
<1>1. Len(a) \in Nat /\ \A i \in 1..Len(a) : a[i] \in Nat
  BY LenProperties
<1>2. \A i \in 1..Len(a) : ~ (i > Len(a) \/ a[i] < a[i])
  BY <1>1
<1> QED BY <1>2 DEF Precedes

(* A version is ordered by a tuple of numbers.                             *)
LEMMA KeyIsTuple ==
  ASSUME NEW k \in Keys
  PROVE  /\ VersionKey(k.version) \in Seq(Nat)
         /\ Dotted(k.version) => /\ Len(k.version[1]) \in Nat
                                /\ \A i \in 1..Len(k.version[1]) :
                                     Number(k.version[1][i]) \in Nat
<1> DEFINE v == k.version
           parts == v[1]
<1>1. v \in Seq(Seq(Parts)) /\ TextRank(v) \in Nat
  BY KeysAssumption, RankAssumption
<1>2. CASE Dotted(v)
  <2>1. parts \in Seq(Parts)
    <3>1. Len(v) = 1 /\ 1 \in 1..Len(v)
      BY <1>2 DEF Dotted
    <3> QED BY <1>1, <3>1, LenProperties
  <2>2. Len(parts) \in Nat /\ DOMAIN parts = 1..Len(parts)
        /\ \A i \in 1..Len(parts) : parts[i] \in Parts
    BY <2>1, LenProperties
  <2>3. \A i \in 1..Len(parts) : Number(parts[i]) \in Nat
    BY <1>2, <2>2, NumberAssumption DEF Dotted
  <2> DEFINE n == Len(parts) + 1
             f == [i \in 1..n |-> IF i = 1 THEN 0 ELSE Number(parts[i - 1])]
  <2>4. n \in Nat /\ \A i \in 1..n : i = 1 \/ i - 1 \in 1..Len(parts)
    BY <2>2
  <2>5. f \in [1..n -> Nat]
    BY <2>3, <2>4
  <2>6. f \in Seq(Nat)
    <3> HIDE DEF f, n
    <3> QED BY <2>4, <2>5, SeqDef
  <2>7. VersionKey(v) = f
    BY <1>2 DEF VersionKey
  <2> QED BY <2>2, <2>3, <2>6, <2>7
<1>3. CASE ~ Dotted(v)
  <2>1. VersionKey(v) = << 1, TextRank(v) >>
    BY <1>3 DEF VersionKey
  <2> QED BY <1>1, <1>3, <2>1
<1> QED BY <1>2, <1>3

(***************************************************************************)
(* _version_key orders as the registry promises: a higher version has a    *)
(* key that comes later.                                                   *)
(***************************************************************************)
LEMMA HigherComesLater ==
  ASSUME NEW j \in Keys, NEW k \in Keys, Higher(j.version, k.version)
  PROVE  Precedes(VersionKey(k.version), VersionKey(j.version))
<1> DEFINE v == j.version
           w == k.version
           a == VersionKey(w)
           b == VersionKey(v)
<1>1. /\ TextRank(v) \in Nat /\ TextRank(w) \in Nat
      /\ ~ Dotted(v) => b = << 1, TextRank(v) >>
      /\ ~ Dotted(w) => a = << 1, TextRank(w) >>
  BY RankAssumption DEF VersionKey
<1>2. CASE ~ Dotted(v) /\ Dotted(w)
  <2>1. Len(a) \in Nat /\ Len(a) >= 1 /\ a[1] = 0
    <3> DEFINE n == Len(w[1]) + 1
               f == [i \in 1..n |-> IF i = 1 THEN 0 ELSE Number(w[1][i - 1])]
    <3>1. a = f /\ n \in Nat /\ 1 \in 1..n
      BY <1>2, KeyIsTuple DEF VersionKey
    <3>2. Len(f) = n
      BY <3>1
    <3> QED BY <3>1, <3>2
  <2>2. Len(b) = 2 /\ b[1] = 1
    BY <1>1, <1>2
  <2> HIDE DEF a, b
  <2>3. 1 \in 1..Len(b) /\ a[1] < b[1] /\ 1..(1 - 1) = {}
    BY <2>1, <2>2
  <2>4. Precedes(a, b)
    BY <2>3 DEF Precedes
  <2> QED BY <2>4 DEF a, b
<1>3. CASE ~ Dotted(v) /\ ~ Dotted(w) /\ TextRank(w) < TextRank(v)
  <2>1. /\ Len(a) = 2 /\ Len(b) = 2 /\ a[1] = b[1] /\ a[2] < b[2]
    BY <1>1, <1>3
  <2> HIDE DEF a, b
  <2>2. 2 \in 1..Len(b) /\ \A i \in 1..(2 - 1) : i <= Len(a) /\ a[i] = b[i]
    BY <2>1
  <2>3. Precedes(a, b)
    BY <2>1, <2>2 DEF Precedes
  <2> QED BY <2>3 DEF a, b
<1>4. CASE Dotted(v) /\ Dotted(w)
  <2> DEFINE s == v[1]
             t == w[1]
  <2>1. /\ Len(s) \in Nat /\ Len(t) \in Nat
        /\ \A i \in 1..Len(s) : Number(s[i]) \in Nat
        /\ \A i \in 1..Len(t) : Number(t[i]) \in Nat
    BY <1>4, KeyIsTuple
  <2>2. /\ Len(a) = Len(t) + 1 /\ Len(b) = Len(s) + 1
        /\ a[1] = 0 /\ b[1] = 0
        /\ \A i \in 1..Len(t) : a[i + 1] = Number(t[i])
        /\ \A i \in 1..Len(s) : b[i + 1] = Number(s[i])
    <3>1. a = [i \in 1..(Len(t) + 1) |-> IF i = 1 THEN 0 ELSE Number(t[i - 1])]
      BY <1>4 DEF VersionKey
    <3>2. b = [i \in 1..(Len(s) + 1) |-> IF i = 1 THEN 0 ELSE Number(s[i - 1])]
      BY <1>4 DEF VersionKey
    <3> HIDE DEF a, b, s, t
    <3> QED BY <2>1, <3>1, <3>2
  <2>3. PICK n \in 1..Len(s) :
          /\ \A i \in 1..(n - 1) : i <= Len(t) /\ Number(s[i]) = Number(t[i])
          /\ n <= Len(t) => Number(t[n]) < Number(s[n])
    BY <1>4 DEF Higher
  <2> HIDE DEF a, b, s, t
  <2>4. n \in Nat /\ 1 <= n /\ n + 1 \in 1..Len(b)
    BY <2>1, <2>2
  <2>5. ASSUME NEW i \in 1..((n + 1) - 1)
        PROVE  i <= Len(a) /\ a[i] = b[i]
    <3>1. CASE i = 1
      BY <2>1, <2>2, <3>1
    <3>2. CASE i # 1
      <4> DEFINE m == i - 1
      <4>1. m \in 1..(n - 1) /\ m + 1 = i
        BY <2>4, <3>2
      <4> HIDE DEF m
      <4>2. m <= Len(t) /\ Number(s[m]) = Number(t[m])
        BY <2>3, <4>1
      <4>3. m \in 1..Len(t) /\ m \in 1..Len(s) /\ m + 1 <= Len(a)
        BY <2>1, <2>2, <2>4, <4>1, <4>2
      <4>4. a[m + 1] = Number(t[m]) /\ b[m + 1] = Number(s[m])
        BY <2>2, <4>3
      <4> QED BY <4>1, <4>2, <4>3, <4>4
    <3> QED BY <3>1, <3>2
  <2>6. n + 1 > Len(a) \/ a[n + 1] < b[n + 1]
    BY <2>1, <2>2, <2>3, <2>4
  <2>7. Precedes(a, b)
    BY <2>4, <2>5, <2>6 DEF Precedes
  <2> QED BY <2>7 DEF a, b
<1> QED BY <1>2, <1>3, <1>4 DEF Higher

(* get without a version returns one of the versions held, and none of     *)
(* them is above it.                                                       *)
LEMMA LatestIsHeld ==
  ASSUME Typed, NEW p \in Processes, NEW id, \E e \in Held(p) : e.key.id = id
  PROVE  /\ Latest(p, id) \in Held(p) /\ Latest(p, id).key.id = id
         /\ \A e \in Held(p) : e.key.id = id =>
              ~ Higher(e.key.version, Latest(p, id).key.version)
<1> DEFINE s == registry[p]
           S == VersionsOf(p, id)
           k == [i \in S |-> VersionKey(s[i].key.version)]
           leq == {x \in S \X S : ~ Precedes(k[x[2]], k[x[1]])}
<1>1. /\ s \in Seq(Entries) /\ Len(s) \in Nat /\ DOMAIN s = 1..Len(s)
      /\ \A i \in 1..Len(s) : s[i] \in Entries
  BY LenProperties DEF Typed
<1>2. S \in SUBSET (1..Len(s)) /\ S # {}
        /\ \A i \in S : s[i].key.id = id
  BY <1>1 DEF VersionsOf, Held, ToSet
<1>3. \A i \in S : s[i].key \in Keys
  BY <1>1, <1>2 DEF Entries
<1>4. \A i \in S : k[i] = VersionKey(s[i].key.version) /\ k[i] \in Seq(Nat)
  BY <1>3, KeyIsTuple
<1>5. \A i, j \in S : <<i, j>> \in leq <=> ~ Precedes(k[j], k[i])
  OBVIOUS
<1>6. \E i \in S : Highest(S, leq, i)
  <2> HIDE DEF S, s, k, leq
  <2>1. ASSUME NEW i \in S, NEW j \in S
        PROVE  <<i, j>> \in leq \/ <<j, i>> \in leq
    BY <1>4, <1>5, TuplesTransitive, TuplesIrreflexive
  <2>2. ASSUME NEW i \in S, NEW j \in S, NEW l \in S,
               <<i, j>> \in leq, <<j, l>> \in leq
        PROVE  <<i, l>> \in leq
    <3>1. /\ Precedes(k[i], k[j]) \/ k[i] = k[j]
          /\ Precedes(k[j], k[l]) \/ k[j] = k[l]
      BY <1>4, <1>5, <2>2, TuplesOrdered
    <3>2. Precedes(k[i], k[l]) \/ k[i] = k[l]
      BY <1>4, <3>1, TuplesTransitive
    <3>3. ~ Precedes(k[l], k[i])
      BY <1>4, <3>2, TuplesTransitive, TuplesIrreflexive
    <3> QED BY <1>5, <3>3
  <2> QED BY <1>1, <1>2, <2>1, <2>2, HighestExists
<1> DEFINE IsLast(i) ==
             \A j \in S :
               /\ ~ Precedes(VersionKey(s[i].key.version),
                             VersionKey(s[j].key.version))
               /\ \/ Precedes(VersionKey(s[j].key.version),
                              VersionKey(s[i].key.version))
                  \/ j <= i
<1>7. \E i \in S : IsLast(i)
  <2>1. PICK i \in S : Highest(S, leq, i)
    BY <1>6
  <2>2. ASSUME NEW j \in S
        PROVE  /\ ~ Precedes(k[i], k[j])
               /\ Precedes(k[j], k[i]) \/ j <= i
    <3> HIDE DEF S, k, leq
    <3> QED BY <1>5, <2>1 DEF Highest
  <2> QED BY <1>4, <2>2
<1> DEFINE last == CHOOSE i \in S : IsLast(i)
<1>8. last \in S /\ IsLast(last)
  <2> HIDE DEF IsLast, S
  <2> QED BY <1>7
<1>9. Latest(p, id) = s[last]
  BY DEF Latest
<1> HIDE DEF last
<1>10. ASSUME NEW e \in Held(p), e.key.id = id
       PROVE  ~ Higher(e.key.version, s[last].key.version)
  <2>1. PICK i \in S : s[i] = e
    BY <1>1, <1>10 DEF Held, ToSet, VersionsOf
  <2>2. /\ s[i].key \in Keys /\ s[last].key \in Keys
        /\ ~ Precedes(VersionKey(s[last].key.version),
                     VersionKey(s[i].key.version))
    BY <1>3, <1>8
  <2> QED BY <2>1, <2>2, HigherComesLater
<1>11. s[last] \in Held(p) /\ s[last].key.id = id
  BY <1>1, <1>2, <1>8 DEF Held, ToSet
<1> QED BY <1>9, <1>10, <1>11

ReceiptIn(r) ==
  /\ r.process \in Processes /\ r.run \in Nat /\ r.run <= run[r.process]
  /\ r.run = run[r.process] /\ phase[r.process] # "down" =>
       [key |-> r.key, table |-> r.table] \in Held(r.process)

(* What a receipt of the current run refers to is held.                    *)
LEMMA ReceiptsInvariant == Spec => [](\A r \in receipts : ReceiptIn(r))
<1> DEFINE Inv == \A r \in receipts : ReceiptIn(r)
<1>1. Init => Inv
  BY DEF Init
<1>2. Typed /\ Inv /\ [Next]_vars => Inv'
  <2> SUFFICES ASSUME Typed, Inv, [Next]_vars PROVE Inv'
    OBVIOUS
  <2>1. ASSUME NEW p \in Processes, NEW e, Adds(p, e),
               UNCHANGED <<run, receipts>>, phase[p] # "down",
               \A q \in Processes \ {p} : phase'[q] = phase[q]
        PROVE  Inv'
    BY <2>1 DEF Adds, ReceiptIn
  <2>2. ASSUME NEW p \in Processes, NEW key \in Keys, NEW table \in Tables,
               Registers(p, key, table)
        PROVE  Inv'
    BY <2>1, <2>2 DEF Registers, Register, Typed
  <2>3. ASSUME NEW p \in Processes, Loads(p) PROVE Inv'
    BY <2>1, <2>3 DEF Loads, LoadFile, Typed, history
  <2>4. ASSUME NEW p \in Processes, Forgets(p) PROVE Inv'
    BY <2>4 DEF Forgets, ReceiptIn
  <2>5. ASSUME NEW p \in Processes, Start(p), Keeps PROVE Inv'
    <3>1. /\ run'[p] = run[p] + 1 /\ run[p] \in Nat
          /\ \A q \in Processes \ {p} : run'[q] = run[q] /\ phase'[q] = phase[q]
          /\ receipts' = receipts
      BY <2>5 DEF Start, Typed, history
    <3>2. ASSUME NEW r \in receipts, r.process = p PROVE ReceiptIn(r)'
      <4>1. ReceiptIn(r)
        BY <3>2
      <4>2. r.run \in Nat /\ r.run <= run[p]
        BY <3>2, <4>1 DEF ReceiptIn
      <4>3. r.run <= run'[p] /\ r.run # run'[p]
        BY <3>1, <4>2
      <4> QED BY <3>2, <4>1, <4>2, <4>3 DEF ReceiptIn
    <3>3. ASSUME NEW r \in receipts, r.process # p PROVE ReceiptIn(r)'
      BY <2>5, <3>1, <3>3 DEF Keeps, ReceiptIn
    <3> QED BY <3>1, <3>2, <3>3
  <2>6. ASSUME NEW p \in Processes, NEW entry \in Held(p), NEW latest,
               Answer(p, entry, latest), Keeps
        PROVE  Inv'
    <3>1. /\ run' = run /\ phase' = phase
          /\ \A r \in receipts' \ receipts : /\ r.process = p /\ r.run = run[p]
                                             /\ r.key = entry.key
                                             /\ r.table = entry.table
      BY <2>6 DEF Answer
    <3>2. entry = [key |-> entry.key, table |-> entry.table]
      <4>1. entry \in Entries
        BY <2>6 DEF Held, ToSet, Typed
      <4> QED BY <4>1 DEF Entries
    <3>3. ASSUME NEW r \in receipts PROVE ReceiptIn(r)'
      BY <2>6, <3>1, <3>3 DEF Keeps, ReceiptIn
    <3>4. ASSUME NEW r \in receipts' \ receipts PROVE ReceiptIn(r)'
      BY <2>6, <3>1, <3>2, <3>4 DEF Keeps, ReceiptIn, Typed
    <3> QED BY <3>3, <3>4
  <2>7. ASSUME Keeps, UNCHANGED <<run, receipts>>,
               \A q \in Processes : phase'[q] = "down" <=> phase[q] = "down"
        PROVE  Inv'
    BY <2>7 DEF Keeps, ReceiptIn
  <2>8. ASSUME NEW p \in Processes, NEW key \in Keys, EvaluateVersion(p, key),
               Keeps
        PROVE  Inv'
    BY <2>6, <2>8, EntryIsHeld DEF EvaluateVersion
  <2>9. ASSUME NEW p \in Processes, NEW id, EvaluateLatest(p, id), Keeps
        PROVE  Inv'
    BY <2>6, <2>9, LatestIsHeld DEF EvaluateLatest
  <2>10. CASE Keeps
    <3>1. ASSUME NEW p \in Processes, Truncate(p) \/ Write(p) \/ SaveFails(p)
          PROVE  Inv'
      BY <2>7, <2>10, <3>1 DEF Truncate, Write, SaveFails, Typed, history
    <3>2. ASSUME NEW file \in Files, NEW table \in Tables, Edit(file, table)
          PROVE  Inv'
      BY <2>7, <2>10, <3>2 DEF Edit, history
    <3>3. CASE UNCHANGED vars
      BY <2>7, <2>10, <3>3 DEF vars
    <3> QED BY <2>5, <2>8, <2>9, <2>10, <3>1, <3>2, <3>3 DEF Keeps
  <2> QED BY <2>2, <2>3, <2>4, <2>10, StepKinds
<1> QED BY <1>1, <1>2, TypeInvariant, PTL DEF Spec

(***************************************************************************)
(* A receipt of a running process resolves, by its id and version, to the  *)
(* one table that was applied.                                             *)
(***************************************************************************)
THEOREM ReceiptsAreResolved == Spec => []ReceiptsResolve
<1>1. Typed /\ OneContent /\ (\A r \in receipts : ReceiptIn(r))
        => ReceiptsResolve
  <2> SUFFICES ASSUME Typed, OneContent, NEW r \in receipts, ReceiptIn(r),
                      r.run = run[r.process], phase[r.process] # "down"
               PROVE  {e \in Held(r.process) : e.key = r.key}
                        = {[key |-> r.key, table |-> r.table]}
    BY DEF ReceiptsResolve
  <2> DEFINE d == [key |-> r.key, table |-> r.table]
  <2>1. r.process \in Processes /\ d \in Held(r.process) /\ d.key = r.key
    BY DEF ReceiptIn
  <2> HIDE DEF d
  <2>2. \A e \in Held(r.process) : e.key = r.key => e = d
    BY <2>1 DEF OneContent
  <2> QED BY <2>1, <2>2 DEF d
<1> QED BY <1>1, TypeInvariant, OneContentInvariant, ReceiptsInvariant, PTL

-----------------------------------------------------------------------------
(***************************************************************************)
(* What is acknowledged stays.  While only p registers, the file of an     *)
(* acknowledged entry records the entry's hash or is torn, so that it is   *)
(* loaded as it was acknowledged or refused, and p holds the entry or has  *)
(* the file still to read.                                                 *)
(***************************************************************************)
OnDisk(e) ==
  LET content == disk[FileName(e.key)]
  IN  \/ content = Torn
      \/ content \in Records /\ content.key = e.key /\ content.hash = e.table

InMemory(p, e) ==
  /\ Serves(p) => e \in Held(p)
  /\ phase[p] = "loading" => FileName(e.key) \in unread[p] \/ e \in Held(p)

Alone(p) == \A c \in registered : c.by = p

Kept ==
  \A p \in Processes : Alone(p) =>
    \A e \in EntriesOf(acked) : OwnFile(e) => OnDisk(e) /\ InMemory(p, e)

(* What the only writer of a directory had acknowledged stays on disk, and *)
(* in the memory of its process while that runs.                           *)
LEMMA KeptInvariant == Spec => []Kept
<1>1. Init => Kept
  BY DEF Init, Kept, EntriesOf
<1>2. /\ Typed /\ OneContent /\ SavingHeld /\ Kept
      /\ [Next]_vars
      => Kept'
  <2> SUFFICES ASSUME Typed, OneContent, SavingHeld, Kept, [Next]_vars,
                      NEW p \in Processes, Alone(p)',
                      NEW e \in EntriesOf(acked'), OwnFile(e)'
               PROVE  OnDisk(e)' /\ InMemory(p, e)'
    BY DEF Kept
  <2>1. registered \subseteq registered' => Alone(p) /\ OwnFile(e)
    BY DEF Alone, OwnFile
  <2>2. e \in EntriesOf(acked) => e \in Entries /\ FileName(e.key) \in Files
    BY DEF Typed, EntriesOf, Entries, Files
  <2>3. ASSUME NEW q \in Processes, NEW key \in Keys, NEW table \in Tables,
               Registers(q, key, table)
        PROVE  OnDisk(e)' /\ InMemory(p, e)'
    <3>1. /\ registered \subseteq registered' /\ acked' = acked /\ disk' = disk
          /\ [by |-> q, key |-> key, table |-> table] \in registered'
          /\ phase[q] = "serving" /\ phase'[q] = "saving"
      BY <2>3 DEF Registers, Register, Typed
    <3>2. q = p
      BY <3>1 DEF Alone
    <3>3. OnDisk(e) /\ InMemory(p, e)
      BY <2>1, <3>1 DEF Kept
    <3> QED BY <2>3, <3>1, <3>2, <3>3
            DEF Registers, Adds, OnDisk, InMemory, Serves
  <2>4. CASE /\ registered' = registered /\ acked' = acked /\ disk' = disk
             /\ Held(p)' = Held(p) /\ phase'[p] = phase[p]
             /\ unread'[p] = unread[p]
    <3>1. OnDisk(e) /\ InMemory(p, e)
      BY <2>1, <2>4 DEF Kept
    <3> QED BY <2>4, <3>1 DEF OnDisk, InMemory, Serves
  <2>5. ASSUME NEW q \in Processes, Loads(q)
        PROVE  OnDisk(e)' /\ InMemory(p, e)'
    <3>1. registered' = registered /\ acked' = acked /\ disk' = disk
      BY <2>5 DEF Loads, LoadFile, history
    <3>2. CASE q # p
      BY <2>4, <2>5, <3>1, <3>2 DEF Loads, LoadFile, Adds, Typed
    <3>3. CASE q = p
      <4> DEFINE f == NextFile(p)
      <4>1. OnDisk(e) /\ InMemory(p, e)
        BY <2>1, <3>1 DEF Kept
      <4>2. /\ phase[p] = "loading" /\ disk[f] \in Records
            /\ disk[f].hash = disk[f].table
            /\ Held(p)' = Held(p) \cup {NextEntry(p)}
            /\ unread'[p] = unread[p] \ {f}
            /\ phase'[p] = IF unread'[p] = {} THEN "serving" ELSE "loading"
        BY <2>5, <3>3 DEF Loads, LoadFile, Adds, Typed
      <4>3. FileName(e.key) \in unread'[p] \/ e \in Held(p)'
        <5>1. CASE FileName(e.key) = f
          <6>1. disk[f].key = e.key /\ disk[f].hash = e.table
            BY <4>1, <4>2, <5>1, AbsenceAssumption DEF OnDisk
          <6>2. e = [key |-> e.key, table |-> e.table]
            BY <2>2, <3>1 DEF Entries
          <6>3. NextEntry(p) = e
            BY <4>2, <6>1, <6>2 DEF NextEntry
          <6> QED BY <4>2, <6>3
        <5>2. CASE FileName(e.key) # f
          BY <4>1, <4>2, <5>2 DEF InMemory
        <5> QED BY <5>1, <5>2
      <4>4. InMemory(p, e)'
        BY <4>2, <4>3 DEF InMemory, Serves
      <4> QED BY <3>1, <4>1, <4>4 DEF OnDisk
    <3> QED BY <3>2, <3>3
  <2>6. ASSUME NEW q \in Processes, Forgets(q)
        PROVE  OnDisk(e)' /\ InMemory(p, e)'
    <3>1. registered' = registered /\ acked' = acked /\ disk' = disk
      BY <2>6 DEF Forgets
    <3>2. CASE q # p
      <4>1. unread'[p] = unread[p]
        BY <2>6, <3>2 DEF Forgets, LoadRefuses, Crash, Typed
      <4> QED BY <2>4, <2>6, <3>1, <3>2, <4>1 DEF Forgets
    <3>3. CASE q = p
      <4>1. OnDisk(e)
        BY <2>1, <3>1 DEF Kept
      <4> QED BY <2>6, <3>1, <3>3, <4>1 DEF Forgets, OnDisk, InMemory, Serves
    <3> QED BY <3>2, <3>3
  <2>7. CASE Keeps
    <3>1. registered' = registered
      BY <2>7 DEF Keeps, Start, Truncate, Write, SaveFails, EvaluateVersion,
                  EvaluateLatest, Answer, Edit, vars, history
    <3>2. \A q \in Processes : Held(q)' = Held(q)
      BY <2>7 DEF Keeps
    <3>3. e \in EntriesOf(acked) => OnDisk(e) /\ InMemory(p, e)
      BY <2>1, <3>1 DEF Kept
    <3>4. ASSUME NEW q \in Processes, Start(q)
          PROVE  OnDisk(e)' /\ InMemory(p, e)'
      <4>1. acked' = acked /\ disk' = disk
        BY <3>4 DEF Start, history
      <4>2. FileName(e.key) \in Listed
        BY <2>2, <3>3, <4>1, AbsenceAssumption DEF OnDisk, Listed
      <4>3. CASE q = p
        <5>1. phase'[p] = "loading" /\ unread'[p] = Listed
          BY <3>4, <4>2, <4>3 DEF Start, Typed
        <5> QED BY <3>3, <4>1, <4>2, <5>1 DEF OnDisk, InMemory, Serves
      <4>4. CASE q # p
        BY <2>4, <3>1, <3>2, <3>4, <4>1, <4>4 DEF Start, Typed
      <4> QED BY <4>3, <4>4
    <3>5. ASSUME NEW q \in Processes, Truncate(q)
          PROVE  OnDisk(e)' /\ InMemory(p, e)'
      <4>1. acked' = acked /\ unread' = unread
            /\ (Serves(p)' <=> Serves(p))
            /\ (phase'[p] = "loading" <=> phase[p] = "loading")
        BY <3>5 DEF Truncate, Typed, Serves, history
      <4>2. disk'[FileName(e.key)] \in {disk[FileName(e.key)], Torn}
        BY <2>2, <3>5, <4>1 DEF Truncate, Typed
      <4> QED BY <3>2, <3>3, <4>1, <4>2 DEF OnDisk, InMemory
    <3>6. ASSUME NEW q \in Processes, Write(q)
          PROVE  OnDisk(e)' /\ InMemory(p, e)'
      <4> DEFINE s == saving[q]
                 r == [key |-> s.key, table |-> s.table, hash |-> s.table]
      <4>1. /\ s \in Entries /\ s # Nothing /\ Call(q, s) \in registered
            /\ phase[q] = "truncated" /\ phase'[q] = "serving"
            /\ unread' = unread /\ acked' = acked \cup {Call(q, s)}
        BY <3>6, AbsenceAssumption DEF Write, Typed
      <4>8. PICK content \in {r, Torn} :
              disk' = [disk EXCEPT ![FileName(s.key)] = content]
        BY <3>6 DEF Write
      <4>2. q = p
        BY <3>1, <4>1 DEF Alone, Call
      <4>3. s \in Held(p)
        BY <4>1, <4>2 DEF SavingHeld
      <4>4. e = s \/ e \in EntriesOf(acked)
        <5>1. s = [key |-> s.key, table |-> s.table]
          BY <4>1 DEF Entries
        <5> QED BY <4>1, <5>1 DEF EntriesOf, Call
      <4>5. e \in Held(p)
        BY <3>3, <4>1, <4>2, <4>3, <4>4 DEF InMemory, Serves
      <4>6. CASE FileName(e.key) = FileName(s.key)
        <5>1. e.key = s.key
          BY <3>1, <4>1, <4>6 DEF OwnFile, Call
        <5>2. e = s
          BY <4>3, <4>5, <5>1 DEF OneContent
        <5>3. disk'[FileName(e.key)] \in {r, Torn}
          BY <4>1, <4>8, <5>2 DEF Typed, Files, Entries
        <5>4. r \in Records
          BY <4>1 DEF Entries, Records
        <5>5. r.key = e.key /\ r.hash = e.table
          BY <5>2
        <5> HIDE DEF r
        <5>6. OnDisk(e)'
          BY <5>3, <5>4, <5>5 DEF OnDisk
        <5> QED BY <3>2, <4>1, <4>2, <4>5, <5>6 DEF InMemory, Serves
      <4>7. CASE FileName(e.key) # FileName(s.key)
        <5>1. disk'[FileName(e.key)] = disk[FileName(e.key)]
          BY <4>7, <4>8 DEF Typed
        <5>2. OnDisk(e)
          BY <3>3, <4>4, <4>7
        <5> QED BY <3>2, <4>1, <4>2, <4>5, <5>1, <5>2
                DEF OnDisk, InMemory, Serves
      <4> QED BY <4>6, <4>7
    <3>7. ASSUME NEW q \in Processes, SaveFails(q)
          PROVE  OnDisk(e)' /\ InMemory(p, e)'
      <4>1. acked' = acked /\ unread' = unread /\ disk' = disk
            /\ (Serves(p)' <=> Serves(p))
            /\ (phase'[p] = "loading" <=> phase[p] = "loading")
        BY <3>7 DEF SaveFails, Typed, Serves, history
      <4> QED BY <3>2, <3>3, <4>1 DEF OnDisk, InMemory
    <3>8. ASSUME NEW q, NEW entry, NEW latest, Answer(q, entry, latest)
          PROVE  OnDisk(e)' /\ InMemory(p, e)'
      BY <2>4, <3>1, <3>2, <3>8 DEF Answer
    <3>9. ASSUME NEW file \in Files, NEW table \in Tables, Edit(file, table)
          PROVE  OnDisk(e)' /\ InMemory(p, e)'
      <4>1. acked' = acked /\ unread' = unread /\ phase' = phase
        BY <3>9 DEF Edit, history
      <4>2. CASE file # FileName(e.key)
        <5>1. disk'[FileName(e.key)] = disk[FileName(e.key)]
          BY <3>9, <4>2 DEF Edit, Typed
        <5> QED BY <3>2, <3>3, <4>1, <5>1 DEF OnDisk, InMemory, Serves
      <4>3. CASE file = FileName(e.key)
        <5>1. /\ disk[file] \in Records /\ disk'[file] \in Records
              /\ disk'[file].key = disk[file].key
              /\ disk'[file].hash = disk[file].hash
          BY <3>9 DEF Edit, Typed, Records
        <5>2. OnDisk(e)'
          BY <3>3, <4>1, <4>3, <5>1, AbsenceAssumption DEF OnDisk
        <5> QED BY <3>2, <3>3, <4>1, <5>2 DEF InMemory, Serves
      <4> QED BY <4>2, <4>3
    <3>10. CASE UNCHANGED vars
      BY <2>4, <3>1, <3>2, <3>10 DEF vars
    <3> QED BY <2>7, <3>4, <3>5, <3>6, <3>7, <3>8, <3>9, <3>10
            DEF Keeps, EvaluateVersion, EvaluateLatest
  <2> QED BY <2>3, <2>5, <2>6, <2>7, StepKinds
<1> QED BY <1>1, <1>2, TypeInvariant, OneContentInvariant, SavingInvariant, PTL
        DEF Spec

(***************************************************************************)
(* As long as one process alone registers, what it answered with persisted *)
(* it serves as acknowledged, after any crash, failed save or edited file. *)
(***************************************************************************)
THEOREM AcknowledgedServed == Spec => []AcknowledgedIsServed
<1>1. Kept => AcknowledgedIsServed
  BY DEF Kept, AcknowledgedIsServed, Alone, InMemory
<1> QED BY <1>1, KeptInvariant, PTL

(***************************************************************************)
(* As long as one process alone registers, an evaluation of its that names *)
(* no version never falls below one it had acknowledged: that one is held  *)
(* (Kept), and get takes the highest of those held (LatestIsHeld).         *)
(***************************************************************************)
THEOREM SupersededNotApplied == Spec => []SupersededIsNotApplied
<1> DEFINE Above(r) ==
             r.latest /\ Alone(r.process) =>
               \A e \in r.acked :
                 OwnFile(e) => ~ Higher(e.key.version, r.key.version)
           Inv == \A r \in receipts : Above(r)
<1>1. Init => Inv
  BY DEF Init
<1>2. Typed /\ Kept /\ Inv /\ [Next]_vars => Inv'
  <2> SUFFICES ASSUME Typed, Kept, Inv, [Next]_vars PROVE Inv'
    OBVIOUS
  <2>1. registered \subseteq registered'
    BY DEF Next, ProcessStep, Start, LoadFile, LoadRefuses, Register, Truncate,
           Write, SaveFails, EvaluateVersion, EvaluateLatest, Answer, Crash,
           Edit, vars, history
  <2>2. ASSUME NEW r \in receipts PROVE Above(r)'
    <3>1. Above(r)
      BY <2>2
    <3>2. Alone(r.process)' => Alone(r.process)
      BY <2>1 DEF Alone
    <3>3. \A e \in r.acked : OwnFile(e)' => OwnFile(e)
      BY <2>1 DEF OwnFile
    <3> QED BY <3>1, <3>2, <3>3
  <2>3. CASE receipts' = receipts
    BY <2>2, <2>3
  <2>4. ASSUME NEW p, NEW key, EvaluateVersion(p, key) PROVE Inv'
    <3>1. \A r \in receipts' : r \in receipts \/ ~ r.latest
      BY <2>4 DEF EvaluateVersion, Answer
    <3> QED BY <2>2, <3>1
  <2>5. ASSUME NEW p \in Processes, NEW id, EvaluateLatest(p, id) PROVE Inv'
    <3> DEFINE last == Latest(p, id)
               new == [process |-> p, run |-> run[p], key |-> last.key,
                       table |-> last.table, latest |-> TRUE,
                       acked |-> {e \in EntriesOf(acked) :
                                    e.key.id = last.key.id}]
    <3>1. /\ last.key.id = id
          /\ \A e \in Held(p) : e.key.id = id =>
               ~ Higher(e.key.version, last.key.version)
      BY <2>5, LatestIsHeld DEF EvaluateLatest
    <3>2. /\ receipts' = receipts \cup {new} /\ phase[p] = "serving"
          /\ registered' = registered
      BY <2>5 DEF EvaluateLatest, Answer
    <3>3. ASSUME Alone(p), NEW e \in EntriesOf(acked), OwnFile(e),
                 e.key.id = id
          PROVE  ~ Higher(e.key.version, last.key.version)
      <4>1. e \in Held(p)
        BY <3>2, <3>3 DEF Kept, InMemory, Serves
      <4> HIDE DEF last
      <4> QED BY <3>1, <3>3, <4>1
    <3>4. ASSUME NEW r \in receipts', r \notin receipts PROVE Above(r)'
      <4>1. r = new
        BY <3>2, <3>4
      <4>2. r.process = p /\ r.key = last.key
            /\ r.acked = {e \in EntriesOf(acked) : e.key.id = id}
        BY <3>1, <4>1
      <4>3. Alone(p)' => Alone(p)
        BY <3>2 DEF Alone
      <4>4. \A e \in r.acked : OwnFile(e)' => OwnFile(e)
        BY <3>2 DEF OwnFile
      <4> HIDE DEF new, last
      <4> QED BY <3>3, <4>2, <4>3, <4>4
    <3> HIDE DEF new, Above
    <3> QED BY <2>2, <3>4
  <2>6. (\E p \in Processes, key \in Keys : EvaluateVersion(p, key))
        \/ (\E p \in Processes, id \in {k.id : k \in Keys} :
              EvaluateLatest(p, id))
        \/ receipts' = receipts
    BY DEF Next, ProcessStep, Start, LoadFile, LoadRefuses, Register, Truncate,
           Write, SaveFails, Crash, Edit, vars, history
  <2> QED BY <2>3, <2>4, <2>5, <2>6
<1>3. Inv => SupersededIsNotApplied
  BY DEF SupersededIsNotApplied, Alone
<1> QED BY <1>1, <1>2, <1>3, TypeInvariant, KeptInvariant, PTL DEF Spec
=============================================================================
