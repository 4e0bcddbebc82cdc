-------------------------- MODULE DataStoreProofs ---------------------------
(***************************************************************************)
(* Proofs about Store, for any records, any pointers, any number of racing *)
(* calls and any maxDepth: no rollback, no fork, and a complete history    *)
(* behind every pointer that was validated; and about the worker that      *)
(* replicates the store.                                                   *)
(***************************************************************************)
EXTENDS DataStore, ReplicationWorker, SequenceTheorems, FiniteSetTheorems, TLAPS

-----------------------------------------------------------------------------
(* The walk *)

(***************************************************************************)
(* w is a walk from the head of lp: authentic records, each the            *)
(* predecessor of the one before, with versions going down all along it.   *)
(***************************************************************************)
Linked(w, lp) ==
    /\ \A i \in 1..Len(w) : w[i] \in Authentic
    /\ w # <<>> => w[1] = lp.head /\ Version[w[1]] = lp.version
    /\ \A i, j \in 1..Len(w) : j = i + 1 => Prev[w[i]] = w[j]
    /\ \A i, j \in 1..Len(w) : i < j => Version[w[j]] < Version[w[i]]

\* The walk visits one more record (the loop of ValidateLatestPointerChain).
LEMMA LinkedAppend ==
    ASSUME NEW w \in Seq(Records), NEW lp, Linked(w, lp), NEW r \in Authentic,
           w = <<>> => r = lp.head /\ Version[r] = lp.version,
           w # <<>> => r = Prev[Last(w)] /\ Version[r] < Version[Last(w)]
    PROVE  Linked(Append(w, r), lp)
<1> DEFINE new == Append(w, r)
<1>0. r \in Records
    BY StoreAssumption
<1>1. Len(w) \in Nat /\ (w # <<>> <=> Len(w) # 0)
    BY LenProperties, EmptySeq
<1>2. /\ Len(new) = Len(w) + 1
      /\ \A i \in 1..Len(w) : new[i] = w[i]
      /\ new[Len(w) + 1] = r
    BY <1>0, AppendProperties
<1> HIDE DEF new
<1>3. \A i \in 1..Len(new) : i \in 1..Len(w) \/ i = Len(w) + 1
    BY <1>1, <1>2
<1>4. \A i \in 1..Len(new) : new[i] \in Authentic
    BY <1>2, <1>3 DEF Linked
<1>5. new[1] = lp.head /\ Version[new[1]] = lp.version
    <2>1. CASE w = <<>>
        BY <1>1, <1>2, <2>1
    <2>2. CASE w # <<>>
        BY <1>1, <1>2, <2>2 DEF Linked
    <2> QED
        BY <2>1, <2>2
<1>6. ASSUME NEW i \in 1..Len(new), NEW j \in 1..Len(new), j = i + 1
      PROVE  Prev[new[i]] = new[j]
    <2>1. CASE j \in 1..Len(w)
        BY <1>1, <1>2, <1>6, <2>1 DEF Linked
    <2>2. CASE j = Len(w) + 1
        <3>1. i = Len(w) /\ i \in 1..Len(w)
            BY <1>1, <1>2, <1>6, <2>2
        <3>2. new[i] = Last(w)
            BY <1>2, <3>1 DEF Last
        <3> QED
            BY <1>1, <1>2, <2>2, <3>1, <3>2
    <2> QED
        BY <1>3, <2>1, <2>2
<1>7. ASSUME NEW i \in 1..Len(new), NEW j \in 1..Len(new), i < j
      PROVE  Version[new[j]] < Version[new[i]]
    <2>1. CASE j \in 1..Len(w)
        BY <1>1, <1>2, <1>7, <2>1 DEF Linked
    <2>2. CASE j = Len(w) + 1
        <3>1. i \in 1..Len(w) /\ Len(w) \in 1..Len(w)
            BY <1>1, <1>2, <1>7, <2>2
        <3>2. Version[r] < Version[w[Len(w)]]
            BY <1>1, <3>1 DEF Last
        <3>3. i = Len(w) \/ Version[w[Len(w)]] < Version[w[i]]
            BY <1>1, <3>1 DEF Linked
        <3>4. /\ Version[r] \in Nat
              /\ Version[w[Len(w)]] \in Nat
              /\ Version[w[i]] \in Nat
            BY <1>0, <3>1, ElementOfSeq, StoreAssumption
        <3>5. Version[r] < Version[w[i]]
            BY <3>2, <3>3, <3>4
        <3> QED
            BY <1>2, <2>2, <3>1, <3>5
    <2> QED
        BY <1>3, <2>1, <2>2
<1> QED
    BY <1>4, <1>5, <1>6, <1>7 DEF Linked, new

LEMMA NextPosition ==
    \A n \in Nat : \A i \in 1..n :
        i # n => i + 1 \in 1..n /\ n \in 1..n /\ i < i + 1 /\ i < n
OBVIOUS

\* The records of a complete walk are a history from its pointer's head.
LEMMA WalkIsHistory ==
    ASSUME NEW w \in Seq(Records), w # <<>>, NEW lp, Linked(w, lp), NEW end,
           Prev[Last(w)] = end
    PROVE  /\ IsHistory(ToSet(w), lp.head, end)
           /\ Version[lp.head] = lp.version
           /\ \A r \in ToSet(w) : Version[r] >= Version[Last(w)]
<1>1. Len(w) \in Nat /\ Len(w) # 0 /\ DOMAIN w = 1..Len(w)
    BY LenProperties, EmptySeq
<1>2. w[1] = lp.head /\ Version[w[1]] = lp.version
    BY DEF Linked
<1>3. lp.head \in ToSet(w)
    BY <1>1, <1>2 DEF ToSet
<1>4. ASSUME NEW r \in ToSet(w)
      PROVE  /\ r \in Authentic
             /\ Prev[r] = end \/ (Prev[r] \in ToSet(w) /\ Version[Prev[r]] < Version[r])
             /\ Version[r] >= Version[Last(w)]
    <2>1. PICK i \in 1..Len(w) : r = w[i]
        BY <1>1, <1>4 DEF ToSet
    <2>2. r \in Authentic /\ Version[r] \in Nat
        BY <2>1, StoreAssumption DEF Linked
    <2>3. CASE i = Len(w)
        BY <2>1, <2>2, <2>3 DEF Last
    <2>4. CASE i # Len(w)
        <3>1. i + 1 \in 1..Len(w) /\ Len(w) \in 1..Len(w) /\ i < i + 1 /\ i < Len(w)
            BY <1>1, <2>4, NextPosition
        <3>2. Prev[r] = w[i + 1] /\ Version[w[i + 1]] < Version[r]
            BY <2>1, <3>1 DEF Linked
        <3>3. Prev[r] \in ToSet(w)
            BY <1>1, <3>1, <3>2 DEF ToSet
        <3>4. Version[Last(w)] < Version[r]
            BY <2>1, <3>1 DEF Linked, Last
        <3>5. Version[Last(w)] \in Nat
            BY <3>1, ElementOfSeq, StoreAssumption DEF Last
        <3> QED
            BY <2>2, <3>2, <3>3, <3>4, <3>5
    <2> QED
        BY <2>3, <2>4
<1> QED
    BY <1>2, <1>3, <1>4 DEF IsHistory

-----------------------------------------------------------------------------
(* The inductive invariant *)

(***************************************************************************)
(* What a call knows while it holds no lock: its pointer passed the first  *)
(* checks against the one it read, and what it walked is linked; once it   *)
(* saves, the walk is complete.                                            *)
(***************************************************************************)
CallSound(c) ==
    /\ c.pc # "idle" => c.lp \in Pointers
    /\ c.pc \in {"walk", "save"} => Acceptable(c.lp, c.existing) /\ Linked(c.walked, c.lp)
    /\ c.pc = "save" => c.walked # <<>> /\ Validated(c)

CallsSound == \A t \in Calls : CallSound(call[t])

(***************************************************************************)
(* A record that a call has visited is in the store or was deleted since:  *)
(* data \cup forgotten never shrinks.                                      *)
(***************************************************************************)
WalkedHeld ==
    \A t \in Calls : call[t].pc \in {"walk", "save"} => ToSet(call[t].walked) \subseteq data \cup forgotten

StoreInv == TypeOK /\ CallsSound /\ WalkedHeld /\ HistoryHeld

\* The call records.
CallType == [pc : {"idle", "read", "walk", "save"}, lp : Pointers \cup {None},
             existing : Pointers \cup {None}, walked : Seq(Records), saved : Nat]

\* A call record with another walk.
LEMMA WalkedUpdate ==
    ASSUME NEW c \in CallType, NEW v
    PROVE  [c EXCEPT !.walked = v] = [pc |-> c.pc, lp |-> c.lp, existing |-> c.existing,
                                      walked |-> v, saved |-> c.saved]
BY DEF CallType

LEMMA IdleCallSound == IdleCall \in CallType /\ CallSound(IdleCall)
<1>1. <<>> \in Seq(Records)
    BY EmptySeq
<1> QED
    BY <1>1 DEF IdleCall, CallType, CallSound

\* A call starts, or starts again, with its pointer.
LEMMA ReadCallSound ==
    ASSUME NEW lp \in Pointers
    PROVE  ReadCall(lp) \in CallType /\ CallSound(ReadCall(lp))
<1>1. <<>> \in Seq(Records)
    BY EmptySeq
<1> QED
    BY <1>1 DEF ReadCall, CallType, CallSound

\* The hash that a walk may visit is the hash of a record.
LEMMA CurrentIsRecord ==
    ASSUME NEW c \in CallType, c.lp \in Pointers, MayVisit(c)
    PROVE  Current(c) \in Records
<1>1. Current(c) # ZeroHash
    BY DEF MayVisit
<1>2. CASE c.walked = <<>>
    BY <1>2, StoreAssumption DEF Current
<1>3. CASE c.walked # <<>>
    <2>1. c.walked \in Seq(Records) /\ Len(c.walked) \in Nat \ {0}
        BY <1>3, EmptySeq DEF CallType
    <2>2. Last(c.walked) \in Records
        BY <2>1, ElementOfSeq DEF Last
    <2> QED
        BY <1>1, <1>3, <2>2, StoreAssumption DEF Current
<1> QED
    BY <1>2, <1>3

\* One call changes to a sound one, and nothing else matters to the others.
LEMMA CallStep ==
    ASSUME TypeOK, CallsSound, NEW t \in Calls, NEW c \in CallType, CallSound(c),
           call' = [call EXCEPT ![t] = c]
    PROVE  /\ call' \in [Calls -> CallType]
           /\ CallsSound'
           /\ call'[t] = c
           /\ \A s \in Calls : s # t => call'[s] = call[s]
<1>1. call \in [Calls -> CallType]
    BY DEF TypeOK, CallType
<1>2. /\ call' \in [Calls -> CallType]
      /\ call'[t] = c
      /\ \A s \in Calls : s # t => call'[s] = call[s]
    BY <1>1
<1>3. \A s \in Calls : CallSound(call'[s])
    BY <1>2 DEF CallsSound
<1> QED
    BY <1>2, <1>3 DEF CallsSound

\* What happened to the values under their hash: none is lost without trace.
Grows == data \cup forgotten \subseteq data' \cup forgotten'

\* A pointer's history stays where it is as long as nothing is lost.
LEMMA HistoryStays ==
    ASSUME HistoryHeld, Grows, pointer' = pointer, forced' = forced
    PROVE  HistoryHeld'
<1> SUFFICES ASSUME pointer # None, ~forced
             PROVE  /\ Version[pointer.head] = pointer.version
                    /\ \E S \in SUBSET (data' \cup forgotten') :
                          IsHistory(S, pointer.head, ZeroHash)
    BY DEF HistoryHeld, IsHistory
<1>1. /\ Version[pointer.head] = pointer.version
      /\ \E S \in SUBSET (data \cup forgotten) : IsHistory(S, pointer.head, ZeroHash)
    BY DEF HistoryHeld
<1>2. PICK S \in SUBSET (data \cup forgotten) : IsHistory(S, pointer.head, ZeroHash)
    BY <1>1
<1>3. S \in SUBSET (data' \cup forgotten')
    BY <1>2 DEF Grows
<1> QED
    BY <1>1, <1>2, <1>3

\* The other calls keep what they have walked.
LEMMA WalkedStays ==
    ASSUME WalkedHeld, Grows, NEW t \in Calls,
           \A s \in Calls : s # t => call'[s] = call[s],
           call'[t].pc \in {"walk", "save"} => ToSet(call'[t].walked) \subseteq data' \cup forgotten'
    PROVE  WalkedHeld'
<1> SUFFICES ASSUME NEW s \in Calls, call'[s].pc \in {"walk", "save"}
             PROVE  ToSet(call'[s].walked) \subseteq data' \cup forgotten'
    BY DEF WalkedHeld, ToSet
<1>1. CASE s = t
    BY <1>1
<1>2. CASE s # t
    BY <1>2 DEF WalkedHeld, Grows
<1> QED
    BY <1>1, <1>2

\* A call that ends leaves the rest sound.
LEMMA FinishStep ==
    ASSUME StoreInv, Grows, NEW t \in Calls, Finish(t)
    PROVE  call' \in [Calls -> CallType] /\ CallsSound' /\ WalkedHeld'
<1>1. /\ call' \in [Calls -> CallType]
      /\ CallsSound'
      /\ call'[t] = IdleCall
      /\ \A s \in Calls : s # t => call'[s] = call[s]
    BY IdleCallSound, CallStep DEF StoreInv, Finish
<1>2. WalkedHeld'
    BY <1>1, WalkedStays DEF StoreInv, IdleCall
<1> QED
    BY <1>1, <1>2

LEMMA StoreInvInit == Init => StoreInv
<1> SUFFICES ASSUME Init
             PROVE  StoreInv
    OBVIOUS
<1>1. \A t \in Calls : call[t] = IdleCall
    BY DEF Init
<1>2. call \in [Calls -> CallType] /\ CallsSound
    BY <1>1, IdleCallSound DEF Init, CallsSound
<1>3. TypeOK
    BY <1>2 DEF Init, TypeOK, CallType
<1>4. WalkedHeld
    BY <1>1 DEF WalkedHeld, IdleCall
<1>5. HistoryHeld
    BY DEF Init, HistoryHeld
<1> QED
    BY <1>2, <1>3, <1>4, <1>5 DEF StoreInv

(***************************************************************************)
(* The write: the pointer is the one the call validated against, so its    *)
(* history followed by the records walked is the history of the new one.   *)
(***************************************************************************)
LEMMA CommitHistory ==
    ASSUME StoreInv, NEW t \in Calls, call[t].pc = "save", pointer = call[t].existing, ~forced
    PROVE  /\ Version[call[t].lp.head] = call[t].lp.version
           /\ \E S \in SUBSET (data \cup forgotten) : IsHistory(S, call[t].lp.head, ZeroHash)
<1> DEFINE c == call[t]
           w == c.walked
<1>1. c \in CallType /\ CallSound(c)
    BY DEF StoreInv, TypeOK, CallType, CallsSound
<1>2. /\ w \in Seq(Records) /\ w # <<>>
      /\ Linked(w, c.lp)
      /\ Prev[Last(w)] = Target(c)
      /\ c.existing # None => Version[Last(w)] > c.existing.version
      /\ ToSet(w) \subseteq data \cup forgotten
    BY <1>1 DEF CallSound, CallType, Validated, Current, StoreInv, WalkedHeld
<1>3. /\ IsHistory(ToSet(w), c.lp.head, Target(c))
      /\ Version[c.lp.head] = c.lp.version
    BY <1>2, WalkIsHistory
<1>4. CASE c.existing = None
    BY <1>2, <1>3, <1>4 DEF Target
<1>5. CASE c.existing # None
    <2>1. /\ Version[pointer.head] = pointer.version
          /\ \E S \in SUBSET (data \cup forgotten) : IsHistory(S, pointer.head, ZeroHash)
        BY <1>5 DEF StoreInv, HistoryHeld
    <2>2. PICK S \in SUBSET (data \cup forgotten) : IsHistory(S, pointer.head, ZeroHash)
        BY <2>1
    <2> DEFINE all == ToSet(w) \cup S
    <2>3. Target(c) = pointer.head /\ pointer.head \in S
        BY <1>5, <2>2 DEF Target, IsHistory
    <2>4. ASSUME NEW r \in ToSet(w), Prev[r] = Target(c)
          PROVE  Version[Prev[r]] < Version[r]
        \* r is at least as new as the last record walked.
        <3>1. Version[r] >= Version[Last(w)]
            BY <1>2, WalkIsHistory
        <3>2. Version[Last(w)] > Version[pointer.head]
            BY <1>2, <1>5, <2>1
        <3>3. /\ Version[r] \in Nat
              /\ Version[Last(w)] \in Nat
              /\ Version[pointer.head] \in Nat
            <4>1. Len(w) \in Nat \ {0}
                BY <1>2, EmptySeq
            <4>2. Last(w) \in Records
                BY <1>2, <4>1, ElementOfSeq DEF Last
            <4>3. r \in Records /\ pointer.head \in Records
                BY <1>3, <2>2, <2>3, StoreAssumption DEF IsHistory
            <4> QED
                BY <4>2, <4>3, StoreAssumption
        <3> QED
            BY <2>3, <2>4, <3>1, <3>2, <3>3
    <2>5. IsHistory(all, c.lp.head, ZeroHash)
        <3>1. c.lp.head \in all
            BY <1>3 DEF IsHistory
        <3>2. ASSUME NEW r \in ToSet(w)
              PROVE  r \in Authentic /\ Prev[r] \in all /\ Version[Prev[r]] < Version[r]
            BY <1>3, <2>3, <2>4, <3>2 DEF IsHistory
        <3>3. ASSUME NEW r \in S
              PROVE  /\ r \in Authentic
                     /\ Prev[r] = ZeroHash \/ (Prev[r] \in all /\ Version[Prev[r]] < Version[r])
            BY <2>2, <3>3 DEF IsHistory
        <3> QED
            BY <3>1, <3>2, <3>3 DEF IsHistory
    <2>6. all \in SUBSET (data \cup forgotten)
        BY <1>2, <2>2
    <2> QED
        BY <1>3, <2>5, <2>6
<1> QED
    BY <1>4, <1>5

LEMMA StoreInvNext == StoreInv /\ [Next]_vars => StoreInv'
<1> SUFFICES ASSUME StoreInv, [Next]_vars
             PROVE  StoreInv'
    OBVIOUS
<1>0. TypeOK /\ CallsSound /\ WalkedHeld /\ HistoryHeld /\ call \in [Calls -> CallType]
    BY DEF StoreInv, TypeOK, CallType
<1>1. ASSUME NEW r \in Records, StoreContent(r) \/ DeleteContent(r)
      PROVE  StoreInv'
    <2>1. /\ Grows
          /\ data' \subseteq Records /\ forgotten' \subseteq Records
          /\ UNCHANGED <<pointer, call, forced>>
        BY <1>0, <1>1 DEF StoreContent, DeleteContent, Keep, Grows, TypeOK
    <2>2. TypeOK' /\ CallsSound'
        BY <1>0, <2>1 DEF TypeOK, CallsSound
    <2>3. WalkedHeld'
        BY <1>0, <2>1 DEF WalkedHeld, Grows
    <2> QED
        BY <1>0, <2>1, <2>2, <2>3, HistoryStays DEF StoreInv
<1>2. CASE DeletePointer
    BY <1>0, <1>2 DEF DeletePointer, StoreInv, TypeOK, CallsSound, WalkedHeld, HistoryHeld
<1>3. ASSUME NEW lp \in Pointers, StoreUnchecked(lp)
      PROVE  StoreInv'
    BY <1>0, <1>3 DEF StoreUnchecked, StoreInv, TypeOK, CallsSound, WalkedHeld, HistoryHeld
<1>4. ASSUME NEW t \in Calls, NEW lp \in Pointers, StoreStart(t, lp)
      PROVE  StoreInv'
    <2>1. /\ call' = [call EXCEPT ![t] = ReadCall(lp)]
          /\ UNCHANGED <<data, pointer, forgotten, forced>>
        BY <1>4 DEF StoreStart
    <2>2. /\ call' \in [Calls -> CallType] /\ CallsSound'
          /\ call'[t] = ReadCall(lp)
          /\ \A s \in Calls : s # t => call'[s] = call[s]
        BY <1>0, <2>1, ReadCallSound, CallStep
    <2>3. WalkedHeld'
        BY <1>0, <2>1, <2>2, WalkedStays DEF Grows, ReadCall
    <2> QED
        BY <1>0, <2>1, <2>2, <2>3, HistoryStays DEF StoreInv, TypeOK, CallType, Grows
<1>5. ASSUME NEW t \in Calls, Grows, UNCHANGED <<pointer, forced>>, Finish(t),
             data' \subseteq Records, forgotten' \subseteq Records
      PROVE  StoreInv'
    <2>1. call' \in [Calls -> CallType] /\ CallsSound' /\ WalkedHeld'
        BY <1>5, FinishStep
    <2> QED
        BY <1>0, <1>5, <2>1, HistoryStays DEF StoreInv, TypeOK, CallType
<1>6. ASSUME NEW t \in Calls, Grows, UNCHANGED <<pointer, forced>>,
             data' \subseteq Records, forgotten' \subseteq Records,
             NEW c \in CallType, CallSound(c), call' = [call EXCEPT ![t] = c],
             c.pc \in {"walk", "save"} => ToSet(c.walked) \subseteq data' \cup forgotten'
      PROVE  StoreInv'
    <2>1. /\ call' \in [Calls -> CallType] /\ CallsSound'
          /\ call'[t] = c
          /\ \A s \in Calls : s # t => call'[s] = call[s]
        BY <1>0, <1>6, CallStep
    <2>2. WalkedHeld'
        BY <1>0, <1>6, <2>1, WalkedStays
    <2> QED
        BY <1>0, <1>6, <2>1, <2>2, HistoryStays DEF StoreInv, TypeOK, CallType
<1>7. ASSUME NEW t \in Calls, StoreRead(t)
      PROVE  StoreInv'
    <2>1. /\ Grows /\ UNCHANGED <<data, pointer, forgotten, forced>>
          /\ data' \subseteq Records /\ forgotten' \subseteq Records
        BY <1>0, <1>7 DEF StoreRead, Grows, TypeOK
    <2>2. CASE ~Acceptable(call[t].lp, pointer)
        BY <1>5, <1>7, <2>1, <2>2 DEF StoreRead
    <2>3. CASE Acceptable(call[t].lp, pointer)
        <3> DEFINE c == [pc |-> "walk", lp |-> call[t].lp, existing |-> pointer,
                         walked |-> <<>>, saved |-> call[t].saved]
        <3>1. call' = [call EXCEPT ![t] = c]
            BY <1>0, <1>7, <2>3 DEF StoreRead, CallType
        <3>2. <<>> \in Seq(Records) /\ Len(<<>>) = 0
            BY EmptySeq
        <3>3. call[t].lp \in Pointers
            BY <1>0, <1>7 DEF StoreRead, CallsSound, CallSound
        <3>4. c \in CallType
            BY <1>0, <3>2, <3>3 DEF CallType, TypeOK
        <3>5. Linked(<<>>, call[t].lp)
            BY <3>2 DEF Linked
        <3>6. CallSound(c)
            BY <2>3, <3>3, <3>5 DEF CallSound
        <3>7. ToSet(c.walked) = {}
            BY DEF ToSet
        <3> HIDE DEF c
        <3> QED
            BY <1>6, <2>1, <3>1, <3>4, <3>6, <3>7
    <2> QED
        BY <2>2, <2>3
<1>8. ASSUME NEW t \in Calls, WalkRecord(t)
      PROVE  StoreInv'
    <2> DEFINE r == Current(call[t])
               w == call[t].walked
    <2>1. /\ call[t] \in CallType /\ CallSound(call[t]) /\ call[t].pc = "walk"
          /\ call[t].lp \in Pointers /\ w \in Seq(Records)
          /\ MayVisit(call[t])
        BY <1>0, <1>8 DEF WalkRecord, CallsSound, CallSound, CallType
    <2>2. r \in Records
        BY <2>1, CurrentIsRecord
    <2>3. /\ Grows /\ UNCHANGED <<pointer, forced>> /\ r \in data'
          /\ data' \subseteq Records /\ forgotten' \subseteq Records
        BY <1>0, <1>8, <2>2 DEF WalkRecord, Keep, Grows, TypeOK
    <2>4. CASE ~Links(call[t], r)
        BY <1>5, <1>8, <2>3, <2>4 DEF WalkRecord
    <2>5. CASE Links(call[t], r)
        <3> DEFINE c == [pc |-> "walk", lp |-> call[t].lp, existing |-> call[t].existing,
                         walked |-> Append(w, r), saved |-> call[t].saved]
        <3>1. call' = [call EXCEPT ![t].walked = Append(@, r)]
            BY <1>8, <2>5 DEF WalkRecord
        <3>2. call' = [call EXCEPT ![t] = c]
            <4>1. c = [call[t] EXCEPT !.walked = Append(w, r)]
                BY <2>1, WalkedUpdate
            <4> QED
                BY <1>0, <3>1, <4>1
        <3>3. Append(w, r) \in Seq(Records)
            BY <2>1, <2>2, AppendProperties
        <3>4. c \in CallType
            BY <2>1, <3>3 DEF CallType
        <3>5. Linked(Append(w, r), call[t].lp)
            <4>1. w = <<>> => r = call[t].lp.head /\ Version[r] = call[t].lp.version
                BY <2>5 DEF Links, Current
            <4>2. w # <<>> => r = Prev[Last(w)] /\ Version[r] < Version[Last(w)]
                BY <2>5 DEF Links, Current
            <4>3. r \in Authentic /\ Linked(w, call[t].lp)
                BY <2>1, <2>5 DEF Links, CallSound
            <4> QED
                BY <2>1, <4>1, <4>2, <4>3, LinkedAppend
        <3>6. CallSound(c)
            BY <2>1, <3>5 DEF CallSound
        <3>7. ToSet(Append(w, r)) \subseteq data' \cup forgotten'
            <4>1. ToSet(w) \subseteq data' \cup forgotten'
                BY <1>0, <2>1, <2>3 DEF WalkedHeld, Grows
            <4>2. /\ Len(w) \in Nat
                  /\ DOMAIN w = 1..Len(w)
                  /\ DOMAIN Append(w, r) = 1..(Len(w) + 1)
                  /\ \A i \in 1..Len(w) : Append(w, r)[i] = w[i]
                  /\ Append(w, r)[Len(w) + 1] = r
                BY <2>1, <2>2, <3>3, AppendProperties, LenProperties
            <4>3. \A i \in 1..(Len(w) + 1) : i \in 1..Len(w) \/ i = Len(w) + 1
                BY <4>2
            <4> QED
                BY <2>3, <4>1, <4>2, <4>3 DEF ToSet
        <3>8. c.walked = Append(w, r)
            OBVIOUS
        <3> HIDE DEF c
        <3> QED
            BY <1>6, <2>3, <3>2, <3>4, <3>6, <3>7, <3>8
    <2> QED
        BY <2>4, <2>5
<1>9. ASSUME NEW t \in Calls, WalkMissing(t)
      PROVE  StoreInv'
    <2>1. /\ Grows /\ UNCHANGED <<pointer, forced>> /\ Finish(t)
          /\ data' \subseteq Records /\ forgotten' \subseteq Records
        BY <1>0, <1>9 DEF WalkMissing, Grows, TypeOK
    <2> QED
        BY <1>5, <2>1
<1>10. ASSUME NEW t \in Calls, WalkEnd(t)
       PROVE  StoreInv'
    <2>1. /\ Grows /\ UNCHANGED <<data, pointer, forgotten, forced>>
          /\ data' \subseteq Records /\ forgotten' \subseteq Records
        BY <1>0, <1>10 DEF WalkEnd, Grows, TypeOK
    <2>2. /\ call[t] \in CallType /\ CallSound(call[t]) /\ call[t].pc = "walk"
          /\ ~MayVisit(call[t])
        BY <1>0, <1>10 DEF WalkEnd, CallsSound
    <2>3. CASE ~Validated(call[t])
        BY <1>5, <1>10, <2>1, <2>3 DEF WalkEnd
    <2>4. CASE Validated(call[t])
        <3> DEFINE c == [pc |-> "save", lp |-> call[t].lp, existing |-> call[t].existing,
                         walked |-> call[t].walked, saved |-> 0]
        <3>1. call' = [call EXCEPT ![t] = c]
            BY <1>0, <1>10, <2>4 DEF WalkEnd, CallType
        <3>2. c \in CallType
            BY <2>2 DEF CallType
        <3>3. call[t].walked # <<>>
            \* The pointer's head is neither nothing nor the stored head.
            <4> SUFFICES ASSUME call[t].walked = <<>>
                         PROVE  FALSE
                OBVIOUS
            <4>1. call[t].lp.head = Target(call[t])
                BY <2>4 DEF Validated, Current
            <4>2. call[t].lp \in Pointers /\ Acceptable(call[t].lp, call[t].existing)
                BY <2>2 DEF CallSound
            <4> QED
                BY <4>1, <4>2, StoreAssumption DEF Target, Acceptable
        <3>4. Validated(c)
            BY <2>4 DEF Validated, Current, Target
        <3>5. CallSound(c)
            BY <2>2, <3>3, <3>4 DEF CallSound
        <3>6. ToSet(c.walked) \subseteq data' \cup forgotten'
            BY <1>0, <2>1, <2>2 DEF WalkedHeld
        <3> HIDE DEF c
        <3> QED
            BY <1>6, <2>1, <3>1, <3>2, <3>5, <3>6
    <2> QED
        BY <2>3, <2>4
<1>11. ASSUME NEW t \in Calls, SaveRecord(t)
       PROVE  StoreInv'
    <2> DEFINE k == call[t].saved + 1
               c == [pc |-> "save", lp |-> call[t].lp, existing |-> call[t].existing,
                     walked |-> call[t].walked, saved |-> k]
    <2>1. /\ call[t] \in CallType /\ CallSound(call[t]) /\ call[t].pc = "save"
          /\ k \in Nat /\ k <= Len(call[t].walked) /\ call[t].saved \in Nat
        BY <1>0, <1>11 DEF SaveRecord, CallsSound, CallType
    <2>2. call[t].walked[k] \in Records
        <3>1. call[t].walked \in Seq(Records) /\ Len(call[t].walked) \in Nat
            BY <2>1, LenProperties DEF CallType
        <3>2. k \in 1..Len(call[t].walked)
            BY <2>1, <3>1
        <3> QED
            BY <3>1, <3>2, ElementOfSeq
    <2>3. /\ Grows /\ UNCHANGED <<pointer, forced>>
          /\ data' \subseteq Records /\ forgotten' \subseteq Records
        BY <1>0, <1>11, <2>2 DEF SaveRecord, Keep, Grows, TypeOK
    <2>4. call' = [call EXCEPT ![t] = c]
        <3>1. call' = [call EXCEPT ![t].saved = k]
            BY <1>11 DEF SaveRecord
        <3>2. c = [call[t] EXCEPT !.saved = k]
            BY <2>1 DEF CallType
        <3> QED
            BY <1>0, <3>1, <3>2
    <2>5. c \in CallType
        BY <2>1 DEF CallType
    <2>6. CallSound(c)
        BY <2>1 DEF CallSound, Validated, Current, Target
    <2>7. ToSet(c.walked) \subseteq data' \cup forgotten'
        BY <1>0, <2>1, <2>3 DEF WalkedHeld, Grows
    <2> HIDE DEF c
    <2> QED
        BY <1>6, <2>3, <2>4, <2>5, <2>6, <2>7
<1>12. ASSUME NEW t \in Calls, Commit(t)
       PROVE  StoreInv'
    <2>1. /\ Grows /\ UNCHANGED <<data, forgotten, forced>>
          /\ data' \subseteq Records /\ forgotten' \subseteq Records
        BY <1>0, <1>12 DEF Commit, Grows, TypeOK
    <2>2. call[t].pc = "save" /\ call[t].lp \in Pointers
        BY <1>0, <1>12 DEF Commit, CallsSound, CallSound
    <2>3. CASE pointer # call[t].existing
        <3>1. /\ call' = [call EXCEPT ![t] = ReadCall(call[t].lp)]
              /\ pointer' = pointer
            BY <1>12, <2>3 DEF Commit
        <3>2. ReadCall(call[t].lp).pc = "read"
            BY DEF ReadCall
        <3> QED
            BY <1>6, <2>1, <2>2, <3>1, <3>2, ReadCallSound
    <2>4. CASE pointer = call[t].existing
        <3>1. pointer' = call[t].lp /\ Finish(t)
            BY <1>12, <2>4 DEF Commit
        <3>2. call' \in [Calls -> CallType] /\ CallsSound' /\ WalkedHeld'
            BY <2>1, <3>1, FinishStep
        <3>3. TypeOK'
            BY <1>0, <2>1, <2>2, <3>1, <3>2 DEF TypeOK, CallType
        <3>4. HistoryHeld'
            <4> SUFFICES ASSUME ~forced
                         PROVE  /\ Version[pointer'.head] = pointer'.version
                                /\ \E S \in SUBSET (data \cup forgotten) :
                                      IsHistory(S, pointer'.head, ZeroHash)
                BY <2>1 DEF HistoryHeld, IsHistory
            <4> QED
                BY <2>2, <2>4, <3>1, CommitHistory
        <3> QED
            BY <3>2, <3>3, <3>4 DEF StoreInv
    <2> QED
        BY <2>3, <2>4
<1>13. CASE UNCHANGED vars
    BY <1>0, <1>13 DEF vars, StoreInv, TypeOK, CallsSound, WalkedHeld, HistoryHeld
<1> QED
    BY <1>1, <1>2, <1>3, <1>4, <1>7, <1>8, <1>9, <1>10, <1>11, <1>12, <1>13
    DEF Next, StoreStep

LEMMA StoreInvInductive == Spec => []StoreInv
BY StoreInvInit, StoreInvNext, PTL DEF Spec

-----------------------------------------------------------------------------
(* The theorems *)

\* Types; a pointer in the store is one that some node tried to store.
THEOREM StoreTypes == Spec => []TypeOK
BY StoreInvInductive, PTL DEF StoreInv

(***************************************************************************)
(* A node that holds a latest pointer has had its complete history, back   *)
(* to the first version, in its store (toSave and saver of                 *)
(* ValidateLatestPointerChain): however many calls, deletions and fetches  *)
(* interleave.                                                             *)
(***************************************************************************)
THEOREM HistoryIsHeld == Spec => []HistoryHeld
BY StoreInvInductive, PTL DEF StoreInv

(***************************************************************************)
(* What a call holds when it saves and commits is the whole history from   *)
(* its pointer's head to the pointer it read, although it was read one     *)
(* record at a time with no lock held.                                     *)
(***************************************************************************)
THEOREM CallsHoldHistory == Spec => []ValidatedHistory
<1>1. StoreInv => ValidatedHistory
    <2> SUFFICES ASSUME StoreInv, NEW t \in Calls, call[t].pc = "save"
                 PROVE  /\ IsHistory(ToSet(call[t].walked), call[t].lp.head, Target(call[t]))
                        /\ call[t].lp.authentic
                        /\ Version[call[t].lp.head] = call[t].lp.version
                        /\ call[t].existing # None =>
                             \A r \in ToSet(call[t].walked) : Version[r] > call[t].existing.version
        BY DEF ValidatedHistory
    <2> DEFINE c == call[t]
               w == c.walked
    <2>1. c \in CallType /\ CallSound(c)
        BY DEF StoreInv, TypeOK, CallType, CallsSound
    <2>2. /\ w \in Seq(Records) /\ w # <<>>
          /\ Linked(w, c.lp)
          /\ Prev[Last(w)] = Target(c)
          /\ c.existing # None => Version[Last(w)] > c.existing.version
          /\ c.lp.authentic
        BY <2>1 DEF CallSound, CallType, Validated, Current, Acceptable
    <2>3. /\ IsHistory(ToSet(w), c.lp.head, Target(c))
          /\ Version[c.lp.head] = c.lp.version
          /\ \A r \in ToSet(w) : Version[r] >= Version[Last(w)]
        BY <2>2, WalkIsHistory
    <2>4. ASSUME c.existing # None, NEW r \in ToSet(w)
          PROVE  Version[r] > c.existing.version
        <3>1. Len(w) \in Nat \ {0}
            BY <2>2, EmptySeq
        <3>2. Version[Last(w)] \in Nat /\ Version[r] \in Nat /\ c.existing.version \in Nat
            BY <2>1, <2>2, <2>3, <2>4, <3>1, ElementOfSeq, StoreAssumption
            DEF Last, IsHistory, CallType
        <3> QED
            BY <2>2, <2>3, <2>4, <3>2
    <2> QED
        BY <2>2, <2>3, <2>4
<1> QED
    BY <1>1, StoreInvInductive, PTL

(***************************************************************************)
(* No rollback and no fork, for any number of racing calls: Store replaces *)
(* a pointer only by one of a greater version whose history runs through   *)
(* the replaced one.                                                       *)
(***************************************************************************)
THEOREM PointerOnlyAdvances == Spec => PointerAdvances
<1> DEFINE Advances == pointer # None /\ pointer' \notin {None, pointer} =>
                         \/ \E lp \in Pointers : StoreUnchecked(lp)
                         \/ Supersedes(pointer', pointer)
<1>1. ASSUME StoreInv, [Next]_vars
      PROVE  Advances
    <2> SUFFICES ASSUME pointer # None, pointer' # None, pointer' # pointer,
                        ~\E lp \in Pointers : StoreUnchecked(lp)
                 PROVE  Supersedes(pointer', pointer)
        OBVIOUS
    <2>1. PICK t \in Calls : Commit(t)
        BY <1>1 DEF Next, StoreContent, DeleteContent, DeletePointer, StoreStart, StoreStep,
                    StoreRead, WalkRecord, WalkMissing, WalkEnd, SaveRecord, vars
    <2> DEFINE c == call[t]
               w == c.walked
    <2>2. c.pc = "save" /\ pointer = c.existing /\ pointer' = c.lp
        BY <2>1 DEF Commit
    <2>3. c \in CallType /\ CallSound(c)
        BY <1>1 DEF StoreInv, TypeOK, CallType, CallsSound
    <2>4. /\ w \in Seq(Records) /\ w # <<>>
          /\ Linked(w, c.lp)
          /\ Prev[Last(w)] = pointer.head
          /\ Acceptable(c.lp, pointer)
        BY <2>2, <2>3 DEF CallSound, CallType, Validated, Current, Target
    <2>5. IsHistory(ToSet(w), c.lp.head, pointer.head)
        BY <2>4, WalkIsHistory
    <2>6. ToSet(w) \in SUBSET Records
        BY <2>5, StoreAssumption DEF IsHistory
    <2> QED
        BY <2>2, <2>4, <2>5, <2>6 DEF Supersedes, Acceptable
<1>2. StoreInv /\ [Next]_vars => [Advances]_vars
    BY <1>1
<1> HIDE DEF Advances
<1>3. Spec => [][Advances]_vars
    BY <1>2, StoreInvInductive, PTL DEF Spec
<1> QED
    BY <1>3 DEF Advances, PointerAdvances

-----------------------------------------------------------------------------
(***************************************************************************)
(* The worker that replicates the store, for any number of callers and of  *)
(* workers.  The mutex is held from the lock to the end of Start or Stop,  *)
(* across the wait, so a closed channel is in the field only while its     *)
(* caller waits; and the counter of the WaitGroup says whether a worker    *)
(* runs.                                                                   *)
(***************************************************************************)

Waiting(t) == caller[t] \in {"StartWait", "StopWait"}

\* A caller between its lock and its unlock holds the mutex.
MutexHeld ==
    \A t \in Callers : caller[t] \in {"StartLocked", "StopLocked"} \/ Waiting(t) => workerMu = t

\* The channel in the field was closed only by a caller that still waits.
ClosedAwaited ==
    stopReplication \in closed => \E t \in Callers : Waiting(t)

\* Workers have the channels made so far; the counter says if one runs.
WorkersCounted ==
    /\ \A c \in Channels : c > made => worker[c] = "none"
    /\ replicateWg = 0 => \A c \in Channels : ~Running(c)
    /\ replicateWg = 1 => \E c \in Channels : Running(c)

\* The bound holds with the calls of Start that have not made their worker.
BoundKept == made + Cardinality(Starting) <= MaxWorkers

WorkerInv ==
    WorkerTypeOK /\ MutexHeld /\ ClosedAwaited /\ WorkersCounted /\ BoundKept /\ OneWorker /\ NoDoubleClose

-----------------------------------------------------------------------------

\* The callers in Start are finitely many, and fewer when one has returned.
LEMMA StartingFinite ==
    /\ IsFiniteSet(Starting) /\ Cardinality(Starting) \in Nat
    /\ \A t \in Starting : Cardinality(Starting \ {t}) = Cardinality(Starting) - 1
    /\ \A t \in Callers \ Starting : Cardinality(Starting \cup {t}) = Cardinality(Starting) + 1
    /\ Starting # {} => Cardinality(Starting) > 0
<1>1. IsFiniteSet(Starting)
  <2>1. Starting \subseteq Callers
    BY DEF Starting
  <2> QED BY <2>1, WorkerAssumption, FS_Subset
<1>2. Cardinality(Starting) \in Nat
  BY <1>1, FS_CardinalityType
<1>3. \A t \in Starting : Cardinality(Starting \ {t}) = Cardinality(Starting) - 1
  BY <1>1, FS_RemoveElement
<1>4. \A t \in Callers \ Starting : Cardinality(Starting \cup {t}) = Cardinality(Starting) + 1
  BY <1>1, FS_AddElement
<1>5. Starting # {} => Cardinality(Starting) > 0
  BY <1>1, <1>2, FS_EmptySet
<1> QED BY <1>1, <1>2, <1>3, <1>4, <1>5

LEMMA WorkerInitial == WorkerInit => WorkerInv
<1> SUFFICES ASSUME WorkerInit PROVE WorkerInv
  OBVIOUS
<1>1. Cardinality(Starting) = 0
  <2>1. Starting = {}
    BY DEF WorkerInit, Starting
  <2> QED BY <2>1, FS_EmptySet
<1>2. BoundKept
  BY <1>1, WorkerAssumption DEF WorkerInit, BoundKept
<1>3. WorkerTypeOK
  <2>1. 0 \in 0..0 /\ 0 \in 0..MaxWorkers
    BY WorkerAssumption
  <2>2. workerMu \in Callers \cup {NoCaller} /\ caller \in [Callers -> Places] /\ panicked \in BOOLEAN
    BY DEF WorkerInit, Places
  <2>3. worker \in [Channels -> {"none", "select", "replicate", "ended"}]
    BY DEF WorkerInit
  <2> QED BY <2>1, <2>2, <2>3 DEF WorkerInit, WorkerTypeOK
<1> QED
  BY <1>2, <1>3 DEF WorkerInv, WorkerInit, MutexHeld, ClosedAwaited, WorkersCounted, OneWorker, NoDoubleClose,
     Waiting, Running

\* The steps that leave the workers and their channels alone.
LEMMA CallSteps ==
    ASSUME WorkerInv, NEW t \in Callers,
           Call(t, "Stop") \/ (MayStart /\ Call(t, "Start")) \/ Lock(t) \/ Unlock(t)
    PROVE  WorkerInv'
<1> USE DEF WorkerInv, WorkerTypeOK, Places
<1>1. Starting' = Starting \/ (MayStart /\ t \notin Starting /\ Starting' = Starting \cup {t})
  <2>1. CASE Call(t, "Start") /\ MayStart
    BY <2>1 DEF Call, Starting
  <2>2. CASE Call(t, "Stop")
    BY <2>2 DEF Call, Starting
  <2>3. CASE Lock(t)
    BY <2>3 DEF Lock, Starting
  <2>4. CASE Unlock(t)
    BY <2>4 DEF Unlock, Starting
  <2> QED BY <2>1, <2>2, <2>3, <2>4
<1>2. made' = made
  BY DEF Call, Lock, Unlock
<1>3. BoundKept'
  BY <1>1, <1>2, StartingFinite, WorkerAssumption DEF BoundKept, MayStart
<1>4. WorkerTypeOK'
  BY DEF Call, Lock, Unlock
<1>5. MutexHeld'
  BY WorkerAssumption DEF MutexHeld, Waiting, Call, Lock, Unlock
<1>6. ClosedAwaited'
  <2>1. \A u \in Callers : Waiting(u) => Waiting(u)'
    BY DEF Waiting, Call, Lock, Unlock
  <2>2. stopReplication' = stopReplication /\ closed' = closed
    BY DEF Call, Lock, Unlock
  <2> QED BY <2>1, <2>2 DEF ClosedAwaited
<1>7. WorkersCounted' /\ OneWorker' /\ NoDoubleClose'
  BY DEF WorkersCounted, OneWorker, NoDoubleClose, Running, Call, Lock, Unlock
<1> QED BY <1>3, <1>4, <1>5, <1>6, <1>7

LEMMA CloseStep == ASSUME WorkerInv, NEW t \in Callers, Close(t) PROVE WorkerInv'
<1> USE DEF WorkerInv, WorkerTypeOK, Places
<1>1. Starting' = Starting
  BY DEF Close, Starting
<1>2. BoundKept'
  BY <1>1 DEF BoundKept, Close
<1>3. WorkerTypeOK'
  BY DEF Close
<1>4. MutexHeld'
  BY DEF MutexHeld, Waiting, Close
<1>5. ClosedAwaited'
  BY DEF ClosedAwaited, Waiting, Close
<1>6. NoDoubleClose'
  <2>1. stopReplication \notin closed
    BY DEF ClosedAwaited, MutexHeld, Waiting, Close
  <2> QED BY <2>1 DEF NoDoubleClose, Close
<1>7. WorkersCounted' /\ OneWorker'
  BY DEF WorkersCounted, OneWorker, Running, Close
<1> QED BY <1>2, <1>3, <1>4, <1>5, <1>6, <1>7

LEMMA WaitStep == ASSUME WorkerInv, NEW t \in Callers, Wait(t) PROVE WorkerInv'
<1> USE DEF WorkerInv, WorkerTypeOK, Places
<1>1. Starting' = Starting
  BY DEF Wait, Starting
<1>2. BoundKept'
  BY <1>1 DEF BoundKept, Wait
<1>3. WorkerTypeOK'
  BY DEF Wait
<1>4. MutexHeld'
  BY DEF MutexHeld, Waiting, Wait
<1>5. ClosedAwaited'
  BY DEF ClosedAwaited, Wait
<1>6. WorkersCounted' /\ OneWorker' /\ NoDoubleClose'
  BY DEF WorkersCounted, OneWorker, NoDoubleClose, Running, Wait
<1> QED BY <1>2, <1>3, <1>4, <1>5, <1>6

LEMMA SpawnStep == ASSUME WorkerInv, NEW t \in Callers, Spawn(t) PROVE WorkerInv'
<1> USE DEF WorkerInv, WorkerTypeOK, Places
<1>1. t \in Starting /\ Starting' = Starting \ {t}
  BY DEF Spawn, Starting
<1>2. made + 1 \in Channels /\ BoundKept'
  BY <1>1, StartingFinite, WorkerAssumption DEF BoundKept, Spawn, Channels
<1>3. replicateWg = 0 /\ \A c \in Channels : ~Running(c)
  BY DEF Spawn, OneWorker, WorkersCounted, Channels
<1>4. WorkerTypeOK'
  BY <1>2, <1>3 DEF Spawn, Channels
<1>5. MutexHeld'
  BY WorkerAssumption DEF MutexHeld, Waiting, Spawn
<1>6. ClosedAwaited'
  BY DEF ClosedAwaited, Spawn
<1>7. \A c \in Channels : Running(c)' <=> c = made + 1
  BY <1>2, <1>3 DEF Spawn, Running
<1>8. WorkersCounted'
  BY <1>2, <1>3, <1>7 DEF WorkersCounted, Spawn, Channels
<1>9. OneWorker' /\ NoDoubleClose'
  BY <1>7 DEF OneWorker, NoDoubleClose, Spawn
<1> QED BY <1>2, <1>4, <1>5, <1>6, <1>8, <1>9

LEMMA WorkerSteps ==
    ASSUME WorkerInv, NEW c \in Channels, Tick(c) \/ Replicated(c) \/ Stopped(c)
    PROVE  WorkerInv'
<1> USE DEF WorkerInv, WorkerTypeOK
<1>1. UNCHANGED <<workerMu, caller, stopReplication, made, closed, panicked>>
  BY DEF Tick, Replicated, Stopped
<1>2. Starting' = Starting
  BY <1>1 DEF Starting
<1>3. BoundKept' /\ MutexHeld' /\ ClosedAwaited' /\ NoDoubleClose'
  BY <1>1, <1>2 DEF BoundKept, MutexHeld, ClosedAwaited, NoDoubleClose, Waiting
<1>4. CASE Tick(c) \/ Replicated(c)
  <2>1. replicateWg' = replicateWg /\ Running(c)
        /\ worker' \in [Channels -> {"none", "select", "replicate", "ended"}]
    BY <1>4 DEF Tick, Replicated, Running
  <2>2. \A d \in Channels : Running(d)' <=> Running(d)
    BY <1>4 DEF Tick, Replicated, Running
  <2>3. WorkersCounted' /\ OneWorker'
    BY <1>1, <1>4, <2>1, <2>2 DEF WorkersCounted, OneWorker, Running, Tick, Replicated
  <2> QED BY <1>1, <1>3, <2>1, <2>3
<1>5. CASE Stopped(c)
  <2>1. replicateWg = 1
    BY <1>5 DEF Stopped, WorkersCounted, Running
  <2>2. replicateWg' = 0 /\ worker' \in [Channels -> {"none", "select", "replicate", "ended"}]
    BY <1>5, <2>1 DEF Stopped
  <2>3. \A d \in Channels : ~Running(d)'
    BY <1>5 DEF Stopped, Running, OneWorker
  <2>4. \A d \in Channels : d > made => worker'[d] = "none"
    BY <1>5 DEF Stopped, WorkersCounted
  <2>5. WorkersCounted' /\ OneWorker'
    BY <1>1, <2>2, <2>3, <2>4 DEF WorkersCounted, OneWorker
  <2> QED BY <1>1, <1>3, <2>2, <2>5
<1> QED BY <1>4, <1>5

LEMMA WorkerInductive == WorkerInv /\ [WorkerNext]_workerVars => WorkerInv'
<1> SUFFICES ASSUME WorkerInv, [WorkerNext]_workerVars PROVE WorkerInv'
  OBVIOUS
<1>1. CASE \E t \in Callers : Call(t, "Stop") \/ (MayStart /\ Call(t, "Start"))
  BY <1>1, CallSteps
<1>2. CASE \E t \in Callers : CallerStep(t)
  BY <1>2, CallSteps, CloseStep, WaitStep, SpawnStep DEF CallerStep
<1>3. CASE \E c \in Channels : Tick(c) \/ Replicated(c) \/ Stopped(c)
  BY <1>3, WorkerSteps
<1>4. CASE UNCHANGED workerVars
  BY <1>4 DEF workerVars, WorkerInv, WorkerTypeOK, MutexHeld, ClosedAwaited, WorkersCounted, BoundKept,
     OneWorker, NoDoubleClose, Waiting, Running, Starting
<1> QED BY <1>1, <1>2, <1>3, <1>4 DEF WorkerNext

LEMMA WorkerInvariant == WorkerSpec => []WorkerInv
<1> QED BY WorkerInitial, WorkerInductive, PTL DEF WorkerSpec

-----------------------------------------------------------------------------

\* The mutex, the field, the channels and the WaitGroup have their types;
\* the counter of the WaitGroup is never negative and never above one.
THEOREM WorkerTypes == WorkerSpec => []WorkerTypeOK
<1>1. WorkerInv => WorkerTypeOK
  BY DEF WorkerInv
<1> QED BY <1>1, WorkerInvariant, PTL

\* Whatever the order of Start and Stop, one worker runs at most, and its
\* stop channel is in the field (StartReplicationWorker waits for the old one).
THEOREM WorkersExclusive == WorkerSpec => []OneWorker
<1>1. WorkerInv => OneWorker
  BY DEF WorkerInv
<1> QED BY <1>1, WorkerInvariant, PTL

\* close(stopReplication) is never reached with a closed channel.
THEOREM ChannelsClosedOnce == WorkerSpec => []NoDoubleClose
<1>1. WorkerInv => NoDoubleClose
  BY DEF WorkerInv
<1> QED BY <1>1, WorkerInvariant, PTL

=============================================================================
