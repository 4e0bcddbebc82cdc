-------------------------- MODULE KeyManagerProofs --------------------------
(***************************************************************************)
(* The keys of a domain, for any number of nodes and of keys.  A file that *)
(* can be parsed holds the key that was written last, whoever wrote it: it *)
(* becomes one in the very step in which a key is written.  What a key     *)
(* manager gave last is what it has in memory.  So what Load gives is the  *)
(* last key written or the one it gave before.                             *)
(***************************************************************************)
EXTENDS KeyManager, SequenceTheorems, TLAPS

Commands ==
    [pc : {"idle", "save", "write", "keep", "set", "check", "checking", "store", "storing"},
     key : Keys \cup {None}, owner : Keys \cup {None}, since : Nat]

KeyTypes ==
    /\ file \in Keys \cup {None, Empty, Garbled}
    /\ memory \in [Nodes -> Keys \cup {None}]
    /\ view = memory
    /\ cli \in [Nodes -> Commands]
    /\ generated \in 0..MaxKeys
    /\ written \in Seq(Keys)

Places == 1..Len(written)

\* A file that can be parsed has the key that was written last.
FileIsLast == file \in Keys => Len(written) > 0 /\ file = written[Len(written)]

\* A key that a node has given was written.
ViewWritten == \A n \in Nodes : view[n] # None => \E i \in Places : written[i] = view[n]

Saving(n) == cli[n].pc \in {"save", "write"}

\* The keys that keygen is saving are new, and no two of them are the same.
FreshKeys ==
    /\ \A i \in Places : written[i] <= generated
    /\ \A n \in Nodes : Saving(n) =>
         cli[n].key \in 1..generated /\ \A i \in Places : written[i] # cli[n].key
    /\ \A m, n \in Nodes : Saving(m) /\ Saving(n) /\ cli[m].key = cli[n].key => m = n

WrittenOnce == \A i, j \in Places : written[i] = written[j] => i = j

\* The key that Save is about to keep was written after the one it replaces.
KeptIsNewer ==
    \A n \in Nodes : cli[n].pc = "keep" =>
        \E i \in Places :
            /\ written[i] = cli[n].key
            /\ \A j \in Places : written[j] = view[n] => j <= i

\* Unless a key was written since, publish has the key that Load gives.
PublishHasKey ==
    \A n \in Nodes : cli[n].pc \in {"check", "checking"} =>
        /\ cli[n].since <= Len(written)
        /\ cli[n].key \in Keys
        /\ cli[n].since = Len(written) =>
             /\ view[n] = cli[n].key
             /\ file \in Keys => file = cli[n].key
             /\ cli[n].pc = "checking" => cli[n].owner = cli[n].key

KeyInv ==
    KeyTypes /\ FileIsLast /\ ViewWritten /\ FreshKeys /\ WrittenOnce /\ KeptIsNewer /\ PublishHasKey

-----------------------------------------------------------------------------
(* Load, and the place of a key among those written.                       *)

\* None is no key.
LEMMA NoneIsNoKey == None \notin Keys /\ Empty \notin Keys /\ Garbled \notin Keys /\ Keys \subseteq Nat
BY KeyManagerAssumption DEF Keys

\* Load gives the key of the file or what it gave before.
LEMMA LoadGives ==
  ASSUME KeyTypes, NEW n \in Nodes
  PROVE  /\ Load(n) \in Keys \cup {None}
         /\ file \in Keys => Load(n) = file
         /\ file \notin Keys => Load(n) = view[n]
BY NoneIsNoKey DEF KeyTypes, Load, LoadDomainKeyPair

\* A key that was written once has that place, any other has none.
LEMMA PositionIs ==
  ASSUME NEW s \in Seq(Keys), \A i, j \in 1..Len(s) : s[i] = s[j] => i = j, NEW k
  PROVE  /\ \A i \in 1..Len(s) : s[i] = k => Position(s, k) = i
         /\ (\A i \in 1..Len(s) : s[i] # k) => Position(s, k) = 0
<1> DEFINE I == {i \in 1..Len(s) : s[i] = k}
<1>1. Position(s, k) = IF I # {} THEN Min(I) ELSE 0
  BY DEF Position, SelectInSeq
<1>2. ASSUME NEW i \in 1..Len(s), s[i] = k  PROVE Min(I) = i
  <2>1. I = {i}
    BY <1>2
  <2>2. Len(s) \in Nat
    OBVIOUS
  <2> QED BY <2>1, <2>2 DEF Min
<1> QED BY <1>1, <1>2

-----------------------------------------------------------------------------
(* The invariant.                                                          *)

LEMMA KeyInitial == Init => KeyInv
<1> SUFFICES ASSUME Init PROVE KeyInv
  OBVIOUS
<1>1. KeyTypes
  BY KeyManagerAssumption DEF Init, KeyTypes, Commands, Idle, Keys
<1>2. FileIsLast
  BY NoneIsNoKey DEF Init, FileIsLast
<1>3. ViewWritten
  BY DEF Init, ViewWritten
<1>4. FreshKeys /\ WrittenOnce /\ KeptIsNewer /\ PublishHasKey
  BY DEF Init, FreshKeys, WrittenOnce, KeptIsNewer, PublishHasKey, Places, Saving, Idle
<1> QED BY <1>1, <1>2, <1>3, <1>4 DEF KeyInv

\* A step that leaves the file, the keys and the commands alone.
LEMMA KeyStutter ==
  ASSUME KeyInv, UNCHANGED <<file, memory, view, cli, generated, written>>
  PROVE  KeyInv'
BY DEF KeyInv, KeyTypes, FileIsLast, ViewWritten, FreshKeys, WrittenOnce, KeptIsNewer,
       PublishHasKey, Places, Saving

(***************************************************************************)
(* A step in which node n loads the key: its command, if it is the one     *)
(* that loads, goes on with what Load gave.                                *)
(***************************************************************************)
LEMMA LoadStep ==
  ASSUME KeyInv, NEW n \in Nodes, Loads(n), UNCHANGED <<file, generated, written>>,
         \/ UNCHANGED cli
         \/ /\ Load(n) \in Keys
            /\ cli' = [cli EXCEPT ![n] =
                 [pc |-> "check", key |-> Load(n), owner |-> None, since |-> Len(written)]]
         \/ /\ cli[n].pc = "check"
            /\ cli' = [cli EXCEPT ![n].pc = "checking", ![n].owner = Load(n)]
         \/ /\ cli[n].pc = "store"
            /\ cli' = [cli EXCEPT ![n].pc = "storing", ![n].owner = Load(n)]
  PROVE  KeyInv'
<1> USE DEF KeyInv
<1>1. /\ Load(n) \in Keys \cup {None}
      /\ file \in Keys => Load(n) = file
      /\ file \notin Keys => Load(n) = view[n]
  BY LoadGives
<1>2. /\ memory' = [memory EXCEPT ![n] = Load(n)]
      /\ view' = [view EXCEPT ![n] = Load(n)]
      /\ ~Locked(n)
  BY DEF Loads
<1>c. /\ cli' = [cli EXCEPT ![n] = cli'[n]]
      /\ cli'[n] \in Commands
      /\ cli'[n] # cli[n] => cli'[n].pc \in {"check", "checking", "storing"}
  <2>1. Len(written) \in Nat /\ cli[n] \in Commands
    BY DEF KeyTypes
  <2>2. CASE UNCHANGED cli
    BY <2>1, <2>2 DEF KeyTypes
  <2>3. CASE Load(n) \in Keys /\ cli' = [cli EXCEPT ![n] =
                 [pc |-> "check", key |-> Load(n), owner |-> None, since |-> Len(written)]]
    BY <2>1, <2>3 DEF KeyTypes, Commands
  <2>4. ASSUME NEW pc \in {"checking", "storing"},
               cli' = [cli EXCEPT ![n].pc = pc, ![n].owner = Load(n)]
        PROVE  /\ cli' = [cli EXCEPT ![n] = cli'[n]]
               /\ cli'[n] \in Commands
               /\ cli'[n] # cli[n] => cli'[n].pc \in {"check", "checking", "storing"}
    <3>1. cli' = [cli EXCEPT ![n] = [cli[n] EXCEPT !.pc = pc, !.owner = Load(n)]]
      BY <2>4 DEF KeyTypes
    <3>2. [cli[n] EXCEPT !.pc = pc, !.owner = Load(n)] \in Commands
      BY <1>1, <2>1 DEF Commands
    <3>3. [cli[n] EXCEPT !.pc = pc, !.owner = Load(n)].pc = pc
      BY <2>1 DEF Commands
    <3> QED BY <3>1, <3>2, <3>3 DEF KeyTypes
  <2> QED BY <2>2, <2>3, <2>4
<1>3. KeyTypes'
  BY <1>1, <1>2, <1>c DEF KeyTypes
<1>4. FileIsLast'
  BY DEF FileIsLast
<1>5. ViewWritten'
  <2>1. Load(n) # None => \E i \in Places : written[i] = Load(n)
    BY <1>1 DEF FileIsLast, ViewWritten, Places, KeyTypes
  <2> QED BY <1>2, <2>1 DEF ViewWritten, Places, KeyTypes
<1>6. FreshKeys'
  <2>1. \A m \in Nodes : Saving(m)' => Saving(m) /\ cli'[m].key = cli[m].key
    BY <1>c DEF Saving, KeyTypes
  <2> QED BY <2>1 DEF FreshKeys, Places, Saving
<1>7. WrittenOnce'
  BY DEF WrittenOnce, Places
<1>8. KeptIsNewer'
  <2>1. \A m \in Nodes : cli'[m].pc = "keep" => cli[m].pc = "keep" /\ cli'[m].key = cli[m].key /\ m # n
    BY <1>2, <1>c DEF Locked, KeyTypes
  <2>2. \A m \in Nodes \ {n} : view'[m] = view[m]
    BY <1>2 DEF KeyTypes
  <2> QED BY <2>1, <2>2 DEF KeptIsNewer, Places
<1>9. PublishHasKey'
  <2> SUFFICES ASSUME NEW m \in Nodes, cli'[m].pc \in {"check", "checking"}
               PROVE  /\ cli'[m].since <= Len(written)
                      /\ cli'[m].key \in Keys
                      /\ cli'[m].since = Len(written) =>
                           /\ view'[m] = cli'[m].key
                           /\ file \in Keys => file = cli'[m].key
                           /\ cli'[m].pc = "checking" => cli'[m].owner = cli'[m].key
    BY DEF PublishHasKey
  <2>1. CASE m # n
    <3>1. cli'[m] = cli[m] /\ view'[m] = view[m]
      BY <1>2, <1>c, <2>1 DEF KeyTypes
    <3> QED BY <3>1 DEF PublishHasKey
  <2>2. CASE m = n
    <3>1. view'[n] = Load(n)
      BY <1>2 DEF KeyTypes
    <3>2. CASE UNCHANGED cli
      BY <1>1, <2>2, <3>1, <3>2 DEF PublishHasKey
    <3>3. CASE /\ Load(n) \in Keys
               /\ cli' = [cli EXCEPT ![n] =
                    [pc |-> "check", key |-> Load(n), owner |-> None, since |-> Len(written)]]
      <4>1. cli'[n] = [pc |-> "check", key |-> Load(n), owner |-> None, since |-> Len(written)]
        BY <3>3 DEF KeyTypes
      <4>2. Len(written) \in Nat
        BY DEF KeyTypes
      <4> QED BY <1>1, <2>2, <3>1, <3>3, <4>1, <4>2
    <3>4. CASE /\ cli[n].pc = "check"
               /\ cli' = [cli EXCEPT ![n].pc = "checking", ![n].owner = Load(n)]
      <4>1. /\ cli'[n].pc = "checking" /\ cli'[n].owner = Load(n)
            /\ cli'[n].key = cli[n].key /\ cli'[n].since = cli[n].since
        BY <3>4 DEF KeyTypes, Commands
      <4> QED BY <1>1, <2>2, <3>1, <3>4, <4>1 DEF PublishHasKey
    <3>5. CASE /\ cli[n].pc = "store"
               /\ cli' = [cli EXCEPT ![n].pc = "storing", ![n].owner = Load(n)]
      BY <2>2, <3>5 DEF KeyTypes, Commands
    <3> QED BY <3>2, <3>3, <3>4, <3>5
  <2> QED BY <2>1, <2>2
<1> QED BY <1>3, <1>4, <1>5, <1>6, <1>7, <1>8, <1>9

(***************************************************************************)
(* A step in which only the command of node n goes on, to a point at which *)
(* it neither saves a key nor compares two.                                *)
(***************************************************************************)
LEMMA CommandStep ==
  ASSUME KeyInv, NEW n \in Nodes, NEW c \in Commands,
         c.pc \in {"idle", "store"},
         cli' = [cli EXCEPT ![n] = c],
         UNCHANGED <<file, memory, view, generated, written>>
  PROVE  KeyInv'
<1>1. \A m \in Nodes : cli'[m] = IF m = n THEN c ELSE cli[m]
  BY DEF KeyInv, KeyTypes
<1>2. KeyTypes'
  BY DEF KeyInv, KeyTypes
<1>3. FileIsLast' /\ ViewWritten' /\ WrittenOnce'
  BY DEF KeyInv, FileIsLast, ViewWritten, WrittenOnce, Places
<1>4. FreshKeys' /\ KeptIsNewer' /\ PublishHasKey'
  BY <1>1 DEF KeyInv, FreshKeys, KeptIsNewer, PublishHasKey, Places, Saving
<1> QED BY <1>2, <1>3, <1>4 DEF KeyInv

LEMMA IdleCommand == Idle \in Commands /\ Idle.pc = "idle"
BY DEF Idle, Commands

LEMMA KeygenKeeps ==
  ASSUME KeyInv, NEW n \in Nodes, Keygen(n)
  PROVE  KeyInv'
<1> DEFINE c == [Idle EXCEPT !.pc = "save", !.key = generated + 1]
<1>1. /\ generated \in 0..MaxKeys /\ generated < MaxKeys /\ generated' = generated + 1
      /\ cli' = [cli EXCEPT ![n] = c]
      /\ UNCHANGED <<file, memory, view, written>>
  BY DEF Keygen, KeyInv, KeyTypes
<1>2. MaxKeys \in Nat /\ generated + 1 \in Keys
  BY <1>1, KeyManagerAssumption DEF Keys
<1>3. c \in Commands /\ c.pc = "save" /\ c.key = generated + 1
  BY <1>2, IdleCommand DEF Commands
<1>4. \A m \in Nodes : cli'[m] = IF m = n THEN c ELSE cli[m]
  BY <1>1 DEF KeyInv, KeyTypes
<1> HIDE DEF c
<1>5. KeyTypes'
  BY <1>1, <1>2, <1>3 DEF KeyInv, KeyTypes
<1>6. FileIsLast' /\ ViewWritten' /\ WrittenOnce'
  BY <1>1 DEF KeyInv, FileIsLast, ViewWritten, WrittenOnce, Places
<1>7. KeptIsNewer' /\ PublishHasKey'
  BY <1>1, <1>3, <1>4 DEF KeyInv, KeptIsNewer, PublishHasKey, Places
<1>8. FreshKeys'
  <2>1. \A i \in Places : written[i] \in Keys /\ written[i] <= generated
    BY DEF KeyInv, KeyTypes, FreshKeys, Places
  <2>2. \A i \in Places' : written'[i] <= generated'
    <3>1. Places' = Places /\ written' = written
      BY <1>1 DEF Places
    <3>2. \A i \in Places : written[i] \in Nat
      BY <2>1, NoneIsNoKey
    <3> QED BY <1>1, <1>2, <2>1, <3>1, <3>2
  <2>3. \A m \in Nodes : m # n /\ Saving(m) => cli[m].key \in 1..generated
    BY DEF KeyInv, FreshKeys
  <2>4. /\ \A m \in Nodes : m # n => cli'[m] = cli[m] /\ (Saving(m)' <=> Saving(m))
        /\ Saving(n)' /\ cli'[n].key = generated + 1
    BY <1>3, <1>4 DEF Saving
  <2>5. \A m \in Nodes : Saving(m)' =>
          cli'[m].key \in 1..generated' /\ \A i \in Places' : written'[i] # cli'[m].key
    <3> SUFFICES ASSUME NEW m \in Nodes, Saving(m)'
                 PROVE  cli'[m].key \in 1..generated' /\ \A i \in Places' : written'[i] # cli'[m].key
      OBVIOUS
    <3>1. CASE m = n
      BY <1>1, <2>1, <2>4, <3>1, NoneIsNoKey DEF Places
    <3>2. CASE m # n
      BY <1>1, <2>3, <2>4, <3>2 DEF KeyInv, FreshKeys, Places
    <3> QED BY <3>1, <3>2
  <2>6. \A l, m \in Nodes : Saving(l)' /\ Saving(m)' /\ cli'[l].key = cli'[m].key => l = m
    <3>1. \A m \in Nodes : m # n /\ Saving(m) => cli[m].key # generated + 1
      BY <1>1, <2>3
    <3> QED BY <2>4, <3>1 DEF KeyInv, FreshKeys
  <2> QED BY <2>2, <2>5, <2>6 DEF FreshKeys
<1> QED BY <1>5, <1>6, <1>7, <1>8 DEF KeyInv

LEMMA SaveTruncateKeeps ==
  ASSUME KeyInv, NEW n \in Nodes, SaveTruncate(n)
  PROVE  KeyInv'
<1>1. /\ cli[n].pc = "save"
      /\ cli' = [cli EXCEPT ![n].pc = "write"]
      /\ file' = Empty
      /\ UNCHANGED <<memory, view, generated, written>>
  BY DEF SaveTruncate
<1>2. /\ \A m \in Nodes : m # n => cli'[m] = cli[m]
      /\ cli'[n] \in Commands
      /\ cli'[n].pc = "write" /\ cli'[n].key = cli[n].key
  BY <1>1 DEF KeyInv, KeyTypes, Commands
<1>3. KeyTypes'
  BY <1>1, <1>2 DEF KeyInv, KeyTypes
<1>4. FileIsLast' /\ ViewWritten' /\ WrittenOnce'
  BY <1>1, NoneIsNoKey DEF KeyInv, FileIsLast, ViewWritten, WrittenOnce, Places
<1>5. KeptIsNewer' /\ PublishHasKey'
  BY <1>1, <1>2, NoneIsNoKey DEF KeyInv, KeptIsNewer, PublishHasKey, Places
<1>6. FreshKeys'
  <2>1. \A m \in Nodes : (Saving(m)' <=> Saving(m)) /\ (Saving(m) => cli'[m].key = cli[m].key)
    BY <1>1, <1>2 DEF Saving
  <2> QED BY <1>1, <2>1 DEF KeyInv, FreshKeys, Places
<1> QED BY <1>3, <1>4, <1>5, <1>6 DEF KeyInv

LEMMA SaveKeepKeeps ==
  ASSUME KeyInv, NEW n \in Nodes, SaveKeep(n)
  PROVE  KeyInv'
<1>1. /\ cli[n].pc = "keep"
      /\ cli' = [cli EXCEPT ![n].pc = "set"]
      /\ memory' = [memory EXCEPT ![n] = cli[n].key]
      /\ view' = [view EXCEPT ![n] = cli[n].key]
      /\ UNCHANGED <<file, generated, written>>
  BY DEF SaveKeep
<1>2. /\ \A m \in Nodes : m # n => cli'[m] = cli[m] /\ view'[m] = view[m]
      /\ cli'[n] \in Commands /\ cli'[n].pc = "set"
      /\ view'[n] = cli[n].key /\ cli[n].key \in Keys \cup {None}
  BY <1>1 DEF KeyInv, KeyTypes, Commands
<1>3. KeyTypes'
  BY <1>1, <1>2 DEF KeyInv, KeyTypes
<1>4. FileIsLast' /\ WrittenOnce'
  BY <1>1 DEF KeyInv, FileIsLast, WrittenOnce, Places
<1>5. ViewWritten'
  BY <1>1, <1>2 DEF KeyInv, ViewWritten, KeptIsNewer, Places
<1>6. FreshKeys' /\ KeptIsNewer' /\ PublishHasKey'
  BY <1>1, <1>2 DEF KeyInv, FreshKeys, KeptIsNewer, PublishHasKey, Places, Saving
<1> QED BY <1>3, <1>4, <1>5, <1>6 DEF KeyInv

(***************************************************************************)
(* The file may have become the new key, or garbled; the new key is the    *)
(* last one written, and no other node saves it.                           *)
(***************************************************************************)
LEMMA SaveWriteKeeps ==
  ASSUME KeyInv, NEW n \in Nodes, SaveWrite(n)
  PROVE  KeyInv'
<1> DEFINE k == cli[n].key
<1>1. /\ cli[n].pc = "write" /\ Saving(n)
      /\ cli' = [cli EXCEPT ![n].pc = "keep"]
      /\ file' = k \/ file' = Garbled
      /\ written' = Append(written, k)
      /\ UNCHANGED <<memory, view, generated>>
  BY DEF SaveWrite, Saving
<1>2. /\ \A m \in Nodes : m # n => cli'[m] = cli[m]
      /\ cli'[n] \in Commands /\ cli'[n].pc = "keep" /\ cli'[n].key = k
  BY <1>1 DEF KeyInv, KeyTypes, Commands
<1>3. /\ k \in 1..generated /\ k \in Keys
      /\ \A i \in Places : written[i] # k
      /\ \A m \in Nodes : m # n /\ Saving(m) => cli[m].key # k
  BY <1>1, KeyManagerAssumption DEF KeyInv, KeyTypes, FreshKeys, Keys
<1> HIDE DEF k
<1>4. /\ Len(written) \in Nat /\ Len(written') = Len(written) + 1
      /\ Places' = Places \cup {Len(written')} /\ Len(written') \notin Places
      /\ \A i \in Places : written'[i] = written[i] /\ i <= Len(written')
      /\ written'[Len(written')] = k
      /\ written' \in Seq(Keys)
  BY <1>1, <1>3 DEF KeyInv, KeyTypes, Places
<1>5. KeyTypes'
  BY <1>1, <1>2, <1>3, <1>4 DEF KeyInv, KeyTypes
<1>6. FileIsLast'
  BY <1>1, <1>4, NoneIsNoKey DEF FileIsLast
<1>7. ViewWritten'
  <2> SUFFICES ASSUME NEW m \in Nodes, view[m] # None
               PROVE  \E i \in Places' : written'[i] = view[m]
    BY <1>1 DEF ViewWritten
  <2>1. PICK i \in Places : written[i] = view[m]
    BY DEF KeyInv, ViewWritten
  <2> QED BY <1>4, <2>1
<1>8. WrittenOnce'
  BY <1>3, <1>4 DEF KeyInv, WrittenOnce
<1>9. FreshKeys'
  <2>1. \A m \in Nodes : Saving(m)' => m # n /\ Saving(m) /\ cli'[m].key = cli[m].key
    BY <1>2 DEF Saving
  <2>2. \A i \in Places' : written'[i] <= generated
    BY <1>3, <1>4 DEF KeyInv, FreshKeys
  <2>3. \A m \in Nodes : Saving(m)' =>
          cli'[m].key \in 1..generated /\ \A i \in Places' : written'[i] # cli'[m].key
    BY <1>3, <1>4, <2>1 DEF KeyInv, FreshKeys
  <2> QED BY <1>1, <2>1, <2>2, <2>3 DEF KeyInv, FreshKeys
<1>10. KeptIsNewer'
  <2> SUFFICES ASSUME NEW m \in Nodes, cli'[m].pc = "keep"
               PROVE  \E i \in Places' :
                        /\ written'[i] = cli'[m].key
                        /\ \A j \in Places' : written'[j] = view'[m] => j <= i
    BY DEF KeptIsNewer
  <2>1. CASE m = n
    BY <1>2, <1>4, <2>1
  <2>2. CASE m # n
    <3>1. PICK i \in Places :
            written[i] = cli[m].key /\ \A j \in Places : written[j] = view[m] => j <= i
      BY <1>2, <2>2 DEF KeyInv, KeptIsNewer
    <3>2. view[m] # k
      BY <1>3, NoneIsNoKey DEF KeyInv, ViewWritten
    <3>3. i \in Places' /\ written'[i] = cli'[m].key
      BY <1>2, <1>4, <2>2, <3>1
    <3>4. \A j \in Places' : written'[j] = view[m] => j <= i
      BY <1>4, <3>1, <3>2
    <3> QED BY <1>1, <3>3, <3>4
  <2> QED BY <2>1, <2>2
<1>11. PublishHasKey'
  <2> SUFFICES ASSUME NEW m \in Nodes, cli'[m].pc \in {"check", "checking"}
               PROVE  /\ cli'[m].since <= Len(written') /\ cli'[m].since # Len(written')
                      /\ cli'[m].key \in Keys
    BY DEF PublishHasKey
  <2>1. cli'[m] = cli[m] /\ cli[m].since \in Nat
    BY <1>2 DEF KeyInv, KeyTypes, Commands
  <2> QED BY <1>4, <2>1 DEF KeyInv, PublishHasKey
<1> QED BY <1>5, <1>6, <1>7, <1>8, <1>9, <1>10, <1>11 DEF KeyInv

LEMMA RestartKeeps ==
  ASSUME KeyInv, NEW n \in Nodes, Restart(n)
  PROVE  KeyInv'
<1> DEFINE k == LoadDomainKeyPair
<1>1. /\ k \in Keys \cup {None}
      /\ k # None => file = k /\ k \in Keys
  BY DEF LoadDomainKeyPair
<1>2. /\ memory' = [memory EXCEPT ![n] = k]
      /\ view' = [view EXCEPT ![n] = k]
      /\ cli' = [cli EXCEPT ![n] = Idle]
      /\ UNCHANGED <<file, generated, written>>
  BY DEF Restart
<1>3. /\ \A m \in Nodes : cli'[m] = IF m = n THEN Idle ELSE cli[m]
      /\ \A m \in Nodes : view'[m] = IF m = n THEN k ELSE view[m]
  BY <1>2 DEF KeyInv, KeyTypes
<1> HIDE DEF k
<1>4. KeyTypes'
  BY <1>1, <1>2, IdleCommand DEF KeyInv, KeyTypes
<1>5. FileIsLast' /\ WrittenOnce'
  BY <1>2 DEF KeyInv, FileIsLast, WrittenOnce, Places
<1>6. ViewWritten'
  <2>1. k # None => \E i \in Places : written[i] = k
    BY <1>1 DEF KeyInv, KeyTypes, FileIsLast, Places
  <2> QED BY <1>2, <1>3, <2>1 DEF KeyInv, ViewWritten, Places
<1>7. FreshKeys' /\ KeptIsNewer' /\ PublishHasKey'
  BY <1>2, <1>3, IdleCommand DEF KeyInv, FreshKeys, KeptIsNewer, PublishHasKey, Places, Saving
<1> QED BY <1>4, <1>5, <1>6, <1>7 DEF KeyInv

\* The invariant is inductive: one step for each action.
LEMMA KeyStep == KeyInv /\ [Next]_vars => KeyInv'
<1> SUFFICES ASSUME KeyInv, [Next]_vars PROVE KeyInv'
  OBVIOUS
<1>1. ASSUME UNCHANGED vars PROVE KeyInv'
  BY <1>1, KeyStutter DEF vars
<1>2. ASSUME NEW n \in Nodes, Keygen(n) PROVE KeyInv'
  BY <1>2, KeygenKeeps
<1>3. ASSUME NEW n \in Nodes, SaveTruncate(n) PROVE KeyInv'
  BY <1>3, SaveTruncateKeeps
<1>4. ASSUME NEW n \in Nodes, SaveWrite(n) PROVE KeyInv'
  BY <1>4, SaveWriteKeeps
<1>5. ASSUME NEW n \in Nodes, SaveKeep(n) PROVE KeyInv'
  BY <1>5, SaveKeepKeeps
<1>6. ASSUME NEW n \in Nodes, SaveFails(n) \/ KeygenSetKey(n) \/ PublishRefused(n) \/ PublishStored(n)
      PROVE  KeyInv'
  BY <1>6, IdleCommand, CommandStep DEF SaveFails, KeygenSetKey, PublishRefused, PublishStored
<1>7. ASSUME NEW n \in Nodes, PublishMatches(n) PROVE KeyInv'
  <2> DEFINE c == [cli[n] EXCEPT !.pc = "store"]
  <2>1. c \in Commands /\ c.pc = "store"
    BY DEF KeyInv, KeyTypes, Commands
  <2>2. cli' = [cli EXCEPT ![n] = c]
    BY <1>7 DEF PublishMatches, KeyInv, KeyTypes
  <2> QED BY <1>7, <2>1, <2>2, CommandStep DEF PublishMatches
<1>8. ASSUME NEW n \in Nodes, (\E k \in DNSKeys \cup 1..generated : HandleSet(n, k)) \/ ValidateAnswer(n)
      PROVE  KeyInv'
  BY <1>8, KeyStutter DEF HandleSet, ValidateAnswer
<1>9. ASSUME NEW n \in Nodes, ValidateLoad(n) PROVE KeyInv'
  BY <1>9, LoadStep DEF ValidateLoad
<1>10. ASSUME NEW n \in Nodes, NEW force \in BOOLEAN, PublishLoad(n, force) PROVE KeyInv'
  <2>1. Load(n) # None => Load(n) \in Keys
    BY LoadGives DEF KeyInv
  <2> QED BY <1>10, <2>1, LoadStep DEF PublishLoad
<1>11. ASSUME NEW n \in Nodes, PublishCheck(n) \/ PublishStore(n) PROVE KeyInv'
  BY <1>11, LoadStep DEF PublishCheck, PublishStore, PublishOwner
<1>12. ASSUME NEW n \in Nodes, Restart(n) PROVE KeyInv'
  BY <1>12, RestartKeeps
<1> QED BY <1>1, <1>2, <1>3, <1>4, <1>5, <1>6, <1>7, <1>8, <1>9, <1>10, <1>11, <1>12 DEF Next

LEMMA KeyInvariant == Spec => []KeyInv
BY KeyInitial, KeyStep, PTL DEF Spec

-----------------------------------------------------------------------------
(* The theorems.                                                           *)

(***************************************************************************)
(* KeyKept for any number of nodes: a node that has given the domain's key *)
(* has it in memory, so that Load (keymanager.go:119) gives a key whatever *)
(* has become of the file.                                                 *)
(***************************************************************************)
THEOREM RunningNodesKeepKey == Spec => []KeyKept
<1>1. KeyInv => KeyKept
  <2> SUFFICES ASSUME KeyInv, NEW n \in Nodes, view[n] # None PROVE Load(n) # None
    BY DEF KeyKept
  <2> QED BY LoadGives, NoneIsNoKey DEF KeyInv
<1> QED BY <1>1, KeyInvariant, PTL

(***************************************************************************)
(* NeverStale for any number of nodes and keys: the keys that a node gives *)
(* come in the order in which they were written.  Load gives the last key  *)
(* or the one it gave before, and Save keeps a key that was written after  *)
(* the one it replaces (keymanager.go:100-136).                            *)
(***************************************************************************)
THEOREM KeysNeverStale == Spec => NeverStale
<1>1. ASSUME KeyInv, KeyInv', [Next]_vars, NEW n \in Nodes, view'[n] # None
      PROVE  Position(written', view'[n]) >= Position(written, view[n])
  <2> USE <1>1
  <2>1. Position(written, view[n]) \in 0..Len(written)
    <3>1. /\ written \in Seq(Keys) /\ Len(written) \in Nat
          /\ \A i, j \in 1..Len(written) : written[i] = written[j] => i = j
      BY DEF KeyInv, KeyTypes, WrittenOnce, Places
    <3>2. CASE \E i \in 1..Len(written) : written[i] = view[n]
      BY <3>1, <3>2, PositionIs
    <3>3. CASE \A i \in 1..Len(written) : written[i] # view[n]
      BY <3>1, <3>3, PositionIs
    <3> QED BY <3>2, <3>3
  <2>2. /\ written' \in Seq(Keys) /\ written \in Seq(Keys)
        /\ \A i, j \in 1..Len(written') : written'[i] = written'[j] => i = j
        /\ \A i, j \in 1..Len(written) : written[i] = written[j] => i = j
    BY DEF KeyInv, KeyTypes, WrittenOnce, Places
  <2>3. \/ written' = written
        \/ \E k \in Keys : written' = Append(written, k)
    <3>1. ASSUME NEW m \in Nodes, SaveWrite(m) PROVE written' = Append(written, cli[m].key) /\ cli[m].key \in Keys
      BY <3>1, KeyManagerAssumption DEF SaveWrite, KeyInv, KeyTypes, FreshKeys, Saving, Keys
    <3> QED BY <3>1 DEF Next, vars, Keygen, SaveTruncate, SaveFails, SaveKeep, KeygenSetKey, HandleSet,
               ValidateLoad, ValidateAnswer, PublishLoad, PublishCheck, PublishMatches, PublishRefused,
               PublishStore, PublishStored, PublishOwner, Restart
  <2>4. /\ Len(written') >= Len(written)
        /\ \A i \in 1..Len(written) : i \in 1..Len(written') /\ written'[i] = written[i]
    BY <2>2, <2>3
  <2>5. CASE view'[n] = view[n]
    <3>1. CASE \E i \in 1..Len(written) : written[i] = view[n]
      <4>1. PICK i \in 1..Len(written) : written[i] = view[n]
        BY <3>1
      <4>2. Position(written, view[n]) = i /\ Position(written', view'[n]) = i
        BY <2>2, <2>4, <2>5, <4>1, PositionIs
      <4> QED BY <4>2
    <3>2. CASE \A i \in 1..Len(written) : written[i] # view[n]
      BY <1>1, <3>2, NoneIsNoKey, <2>5 DEF KeyInv, ViewWritten, Places
    <3> QED BY <3>1, <3>2
  <2>6. ASSUME file \in Keys, view'[n] = file, written' = written
        PROVE  Position(written', view'[n]) = Len(written)
    BY <2>2, <2>6, PositionIs DEF KeyInv, FileIsLast
  <2>7. CASE Loads(n) /\ written' = written
    <3>1. view'[n] = Load(n)
      BY <2>7 DEF Loads, KeyInv, KeyTypes
    <3> QED BY <2>1, <2>2, <2>5, <2>6, <2>7, <3>1, LoadGives DEF KeyInv
  <2>8. CASE Restart(n)
    <3>1. view'[n] = LoadDomainKeyPair /\ written' = written
      BY <2>8 DEF Restart, KeyInv, KeyTypes
    <3>2. file \in Keys /\ view'[n] = file
      BY <3>1 DEF LoadDomainKeyPair
    <3> QED BY <2>1, <2>2, <2>6, <3>1, <3>2
  <2>9. CASE SaveKeep(n)
    <3>1. cli[n].pc = "keep" /\ view'[n] = cli[n].key /\ written' = written
      BY <2>9 DEF SaveKeep, KeyInv, KeyTypes
    <3>2. PICK i \in 1..Len(written) :
            written[i] = cli[n].key /\ \A j \in 1..Len(written) : written[j] = view[n] => j <= i
      BY <3>1 DEF KeyInv, KeptIsNewer, Places
    <3>3. Position(written', view'[n]) = i
      BY <2>2, <3>1, <3>2, PositionIs
    <3>4. Position(written, view[n]) <= i
      BY <2>2, <3>2, PositionIs
    <3> QED BY <3>3, <3>4, <2>1
  <2>10. \/ view'[n] = view[n]
         \/ Loads(n) /\ written' = written
         \/ Restart(n) \/ SaveKeep(n)
    <3>1. ASSUME NEW m \in Nodes, Loads(m) \/ Restart(m) \/ SaveKeep(m), m # n
          PROVE  view'[n] = view[n]
      BY <3>1 DEF Loads, Restart, SaveKeep, KeyInv, KeyTypes
    <3> QED BY <3>1 DEF Next, vars, Keygen, SaveTruncate, SaveWrite, SaveFails, KeygenSetKey, HandleSet,
               ValidateLoad, ValidateAnswer, PublishLoad, PublishCheck, PublishMatches, PublishRefused,
               PublishStore, PublishStored, PublishOwner
  <2> QED BY <2>5, <2>7, <2>8, <2>9, <2>10
<1>2. KeyInv /\ KeyInv' /\ [Next]_vars =>
        [\A n \in Nodes : view'[n] # None =>
           Position(written', view'[n]) >= Position(written, view[n])]_vars
  BY <1>1
<1> QED BY <1>2, KeyInvariant, PTL DEF Spec, NeverStale

(***************************************************************************)
(* MismatchMeansRotation for any number of nodes and keys: publish         *)
(* (cli.go:643) finds its signing key different from the owner's only if a *)
(* key was written between the two reads, unless the owner's record was    *)
(* set by hand.                                                            *)
(***************************************************************************)
THEOREM MismatchOnlyByRotation == Spec => MismatchMeansRotation
<1>1. ASSUME KeyInv, NEW n \in Nodes, PublishRefused(n)
      PROVE  Len(written) > cli[n].since
  <2>1. cli[n].pc = "checking" /\ Owner(n, cli[n].owner) # {cli[n].key}
    BY <1>1 DEF PublishRefused
  <2>2. cli[n].since \in Nat /\ Len(written) \in Nat
    BY <1>1 DEF KeyInv, KeyTypes, Commands
  <2>3. cli[n].since <= Len(written) /\ cli[n].key \in Keys
        /\ (cli[n].since = Len(written) => cli[n].owner = cli[n].key)
    BY <1>1, <2>1 DEF KeyInv, PublishHasKey
  <2>4. cli[n].owner # cli[n].key
    BY <2>1, <2>3, NoneIsNoKey DEF Owner
  <2> QED BY <2>2, <2>3, <2>4
<1>2. KeyInv => [\A n \in Nodes : PublishRefused(n) /\ n \notin manual =>
                   Len(written) > cli[n].since]_vars
  BY <1>1
<1> QED BY <1>2, KeyInvariant, PTL DEF MismatchMeansRotation

=============================================================================
