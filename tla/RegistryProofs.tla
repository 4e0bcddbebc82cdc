--------------------------- MODULE RegistryProofs ---------------------------
(***************************************************************************)
(* The registry, for any number of nodes, versions and publications.       *)
(* First the order of versions, and that accepted histories are complete,  *)
(* with any number of key holders.  Then, with one publisher, that the     *)
(* registry implements PackageHistory: a pointer whose last release is the *)
(* publisher's is a part of the publisher's own history, because nobody    *)
(* else can sign, and the publisher signs only what it then makes its own  *)
(* pointer.                                                                *)
(***************************************************************************)
EXTENDS Registry, SequenceTheorems, WellFoundedInduction, TLAPS

-----------------------------------------------------------------------------
(* The order of versions, on which the checks against rollbacks rest.      *)

(***************************************************************************)
(* Compare tells versions apart: two versions are equal in the order only  *)
(* if they are the same version, so that no release can be replaced by a   *)
(* different one that compares as its equal.                               *)
(***************************************************************************)
THEOREM CompareSeparates ==
  ASSUME NEW v \in Version, NEW w \in Version
  PROVE  Compare(v, w) = 0 <=> v = w
  BY DEF Version, Compare, CompareNumbers

(***************************************************************************)
(* "Versions have a strict total ordering" (version.go:16): of two         *)
(* versions exactly one is greater, or they are the same.                  *)
(***************************************************************************)
THEOREM VersionsTotallyOrdered ==
  ASSUME NEW v \in Version, NEW w \in Version
  PROVE  /\ v = w \/ GreaterThan(v, w) \/ GreaterThan(w, v)
         /\ ~(GreaterThan(v, w) /\ GreaterThan(w, v))
         /\ ~GreaterThan(v, v)
  BY DEF Version, Compare, CompareNumbers, GreaterThan

(***************************************************************************)
(* The order is transitive: versions that increase from record to record   *)
(* increase over the whole history, which is all the validator checks.     *)
(***************************************************************************)
THEOREM GreaterThanTransitive ==
  ASSUME NEW u \in Version, NEW v \in Version, NEW w \in Version,
         GreaterThan(u, v), GreaterThan(v, w)
  PROVE  GreaterThan(u, w)
  BY DEF Version, Compare, CompareNumbers, GreaterThan

(***************************************************************************)
(* What publish makes of a version as the user writes it, with one to      *)
(* three numbers, is a version; a number left out is the same as a zero.   *)
(***************************************************************************)
THEOREM ParseNormalizes ==
  ASSUME NEW a \in Nat, NEW b \in Nat, NEW c \in Nat
  PROVE  /\ ParseVersion(<<a, b, c>>) \in Version
         /\ ParseVersion(<<a>>) = ParseVersion(<<a, 0, 0>>)
         /\ ParseVersion(<<a, b>>) = ParseVersion(<<a, b, 0>>)
  BY DEF Version, ParseVersion

-----------------------------------------------------------------------------
(* Types.                                                                  *)

Rel == [version : Versions, author : Nodes]

HistoryTypes ==
    /\ roles \in Roles
    /\ pointer \in [Nodes -> Seq(Rel)]
    /\ held \in [Nodes -> SUBSET Seq(Rel)]
    /\ pub \in [Nodes -> [pc : {"idle", "record", "pointer"}, rec : Seq(Rel), force : BOOLEAN]]
    /\ stores \subseteq Seq(Rel)
    /\ forgotten \in [Nodes -> SUBSET Seq(Rel)]
    /\ tainted \in [Nodes -> BOOLEAN]

HistoryInv == HistoryTypes /\ CompleteHistories

-----------------------------------------------------------------------------
(* Prefixes and extensions.                                                *)

LEMMA PrefixIs ==
  ASSUME NEW R, NEW s \in Seq(R), NEW t \in Seq(R)
  PROVE  IsPrefix(s, t) <=> Len(s) <= Len(t) /\ \A i \in 1..Len(s) : s[i] = t[i]
<1>1. SubSeq(s, 1, Len(s)) = s
  BY SubSeqProperties
<1>2. CASE Len(s) <= Len(t)
  <2>1. /\ SubSeq(t, 1, Len(s)) \in Seq(R) /\ Len(SubSeq(t, 1, Len(s))) = Len(s)
        /\ \A i \in 1..Len(s) : SubSeq(t, 1, Len(s))[i] = t[i]
    BY <1>2, SubSeqProperties
  <2>2. s = SubSeq(t, 1, Len(s)) <=> \A i \in 1..Len(s) : s[i] = t[i]
    BY <2>1
  <2> QED BY <1>1, <1>2, <2>2 DEF IsPrefix
<1>3. CASE ~(Len(s) <= Len(t))
  BY <1>3 DEF IsPrefix
<1> QED BY <1>2, <1>3

LEMMA PrefixSelf == ASSUME NEW R, NEW s \in Seq(R) PROVE IsPrefix(s, s)
BY DEF IsPrefix

LEMMA PrefixAppend ==
  ASSUME NEW R, NEW s \in Seq(R), NEW t \in Seq(R), NEW e \in R, IsPrefix(s, t)
  PROVE  IsPrefix(s, Append(t, e))
<1>1. /\ Append(t, e) \in Seq(R) /\ Len(Append(t, e)) = Len(t) + 1
      /\ \A i \in 1..Len(t) : Append(t, e)[i] = t[i]
  OBVIOUS
<1>2. Len(s) <= Len(t) /\ \A i \in 1..Len(s) : s[i] = t[i]
  BY PrefixIs
<1>3. Len(s) \in Nat /\ Len(t) \in Nat
  OBVIOUS
<1>4. Len(s) <= Len(Append(t, e)) /\ \A i \in 1..Len(s) : s[i] = Append(t, e)[i]
  BY <1>1, <1>2, <1>3
<1> QED BY <1>1, <1>4, PrefixIs

LEMMA ExtendsIs ==
  ASSUME NEW R, NEW new \in Seq(R), NEW old \in Seq(R), Extends(new, old)
  PROVE  /\ new # <<>> /\ Len(new) > Len(old)
         /\ \A i \in 1..Len(old) : new[i] = old[i]
         /\ Signed(Last(new))
  BY PrefixIs DEF Extends, IsStrictPrefix, Last

-----------------------------------------------------------------------------
(* Complete histories.                                                     *)

\* What publish --force may name as the previous record.
LEMMA HistoriesTyped == ASSUME HistoryTypes PROVE Histories \subseteq Seq(Rel)
<1>1. Releases \subseteq Rel
  BY RegistryAssumption DEF HistoryTypes, Releases, Rel, Role, KeyHolders, Forcers
<1>2. SUFFICES ASSUME NEW h \in Histories PROVE h \in Seq(Rel)
  OBVIOUS
<1>3. PICK m \in 0..MaxHistory : h \in [1..m -> Releases]
  BY <1>2 DEF Histories, SeqOf
<1> QED BY <1>1, <1>3, RegistryAssumption

LEMMA HistoryTypesStep ==
  ASSUME HistoryTypes, [Next]_vars
  PROVE  HistoryTypes'
<1> USE DEF HistoryTypes
<1>1. ASSUME UNCHANGED vars PROVE HistoryTypes'
  BY <1>1 DEF vars
<1>2. ASSUME NEW n \in Nodes, NEW arg \in VersionArgs, NEW force \in BOOLEAN,
             PublishLookup(n, ParseVersion(arg), force)
      PROVE  HistoryTypes'
  <2>1. PICK curr \in LookupLatestPointer(n) : \E prev \in IF force THEN Histories ELSE {curr} :
          pub' = [pub EXCEPT ![n] =
              [pc |-> "record", force |-> force,
               rec |-> Append(prev, [version |-> ParseVersion(arg), author |-> n])]]
    BY <1>2 DEF PublishLookup
  <2>2. PICK prev \in IF force THEN Histories ELSE {curr} :
          pub' = [pub EXCEPT ![n] =
              [pc |-> "record", force |-> force,
               rec |-> Append(prev, [version |-> ParseVersion(arg), author |-> n])]]
    BY <2>1
  <2>3. curr \in Seq(Rel)
    BY DEF LookupLatestPointer
  <2>4. prev \in Seq(Rel)
    BY <2>3, HistoriesTyped
  <2>5. [version |-> ParseVersion(arg), author |-> n] \in Rel
    BY DEF Rel, Versions
  <2>6. Append(prev, [version |-> ParseVersion(arg), author |-> n]) \in Seq(Rel)
    BY <2>4, <2>5
  <2> QED BY <1>2, <2>2, <2>6 DEF PublishLookup
<1>3. ASSUME NEW n \in Nodes, PublishRecord(n) PROVE HistoryTypes'
  BY <1>3 DEF PublishRecord, Keep
<1>4. ASSUME NEW n \in Nodes, PublishPointer(n) PROVE HistoryTypes'
  BY <1>4 DEF PublishPointer, NoPub
<1>5. ASSUME NEW n \in Nodes, PublishFails(n) PROVE HistoryTypes'
  BY <1>5 DEF PublishFails, NoPub
<1>6. ASSUME NEW n \in Nodes, ReplicatePointer(n) PROVE HistoryTypes'
  BY <1>6 DEF ReplicatePointer
<1>7. ASSUME NEW n \in Nodes, NEW m \in Nodes, NEW r \in held[m], FetchRecord(n, r) PROVE HistoryTypes'
  BY <1>7 DEF FetchRecord, Keep
<1>8. ASSUME NEW n \in Nodes, NEW lp \in stores, DeliverPointer(n, lp) PROVE HistoryTypes'
  BY <1>8 DEF DeliverPointer
<1>9. ASSUME NEW lp \in stores, Lose(lp) PROVE HistoryTypes'
  BY <1>9 DEF Lose
<1>10. ASSUME NEW n \in Restarters, Restart(n) PROVE HistoryTypes'
  BY <1>10, RegistryAssumption DEF Restart, NoPub, Restarters, Role
<1>11. ASSUME NEW n \in Forgetters, ForgetPointer(n) PROVE HistoryTypes'
  BY <1>11, RegistryAssumption DEF ForgetPointer, Forgetters, Role
<1>12. ASSUME NEW n \in Forgetters, NEW r \in held[n], ForgetRecord(n, r) PROVE HistoryTypes'
  BY <1>12, RegistryAssumption DEF ForgetRecord, Forgetters, Role
<1> QED BY <1>1, <1>2, <1>3, <1>4, <1>5, <1>6, <1>7, <1>8, <1>9, <1>10, <1>11, <1>12 DEF Next

\* An extension of a valid history is a valid history.
LEMMA ExtendsTwice ==
  ASSUME NEW R, NEW new \in Seq(R), NEW old \in Seq(R), Extends(new, old),
         Extends(old, <<>>) \/ old = <<>>
  PROVE  Extends(new, <<>>)
<1>1. /\ new # <<>> /\ Len(new) > Len(old)
      /\ \A i \in 1..Len(old) : new[i] = old[i]
  BY ExtendsIs
<1>2. IsStrictPrefix(<<>>, new)
  <2>1. SubSeq(<<>>, 1, 0) = <<>> /\ SubSeq(new, 1, 0) = <<>>
    BY SubSeqEmpty
  <2>2. Len(<<>>) = 0 /\ Len(new) \in Nat
    OBVIOUS
  <2> QED BY <1>1, <2>1, <2>2 DEF IsStrictPrefix, IsPrefix
<1>3. ASSUME NEW i \in 1..Len(new)
      PROVE  Signed(new[i]) /\ (i > 1 => GreaterThan(new[i].version, new[i - 1].version))
  <2>1. CASE i > Len(old)
    BY <2>1 DEF Extends
  <2>2. CASE i <= Len(old)
    <3>1. i \in 1..Len(old) /\ new[i] = old[i] /\ (i > 1 => new[i - 1] = old[i - 1]) /\ old # <<>>
      BY <1>1, <2>2
    <3> QED BY <3>1 DEF Extends
  <2> QED BY <2>1, <2>2
<1> QED BY <1>2, <1>3 DEF Extends

\* A node that accepts a pointer has its whole history, or has forgotten
\* records of the part that it had accepted before.
LEMMA AcceptsComplete ==
  ASSUME HistoryInv, NEW n \in Nodes, NEW lp \in Seq(Rel), Accepts(n, lp), ~tainted[n]
  PROVE  Chain(lp) \subseteq held[n] \cup forgotten[n] /\ Extends(lp, <<>>)
<1>1. Chain(lp) \subseteq held[n] \cup forgotten[n]
  BY DEF HistoryInv, CompleteHistories, Accepts
<1>2. Extends(lp, <<>>)
  BY ExtendsTwice DEF HistoryInv, HistoryTypes, CompleteHistories, Accepts
<1> QED BY <1>1, <1>2

LEMMA CompleteStep ==
  ASSUME HistoryInv, [Next]_vars
  PROVE  CompleteHistories'
<1> USE DEF HistoryInv, HistoryTypes
<1> DEFINE Complete(n) == /\ Chain(pointer[n]) \subseteq held[n] \cup forgotten[n]
                          /\ Extends(pointer[n], <<>>) \/ pointer[n] = <<>>
<1> SUFFICES ASSUME NEW m \in Nodes, ~tainted'[m]
             PROVE  Complete(m)'
  BY DEF CompleteHistories
<1>0. roles' = roles
  BY DEF Next, vars, PublishLookup, PublishRecord, PublishPointer, PublishFails, ReplicatePointer,
         FetchRecord, DeliverPointer, Lose, Restart, ForgetPointer, ForgetRecord
<1>1. Complete(m)' <=> /\ Chain(pointer'[m]) \subseteq held'[m] \cup forgotten'[m]
                       /\ Extends(pointer'[m], <<>>) \/ pointer'[m] = <<>>
  BY <1>0 DEF Extends, Signed, KeyHolders, Chain
<1>2. ~tainted[m] => Complete(m)
  BY DEF CompleteHistories
<1> HIDE DEF Complete
<1>3. ASSUME pointer'[m] = pointer[m], tainted'[m] = tainted[m],
             held[m] \cup forgotten[m] \subseteq held'[m] \cup forgotten'[m]
      PROVE  Complete(m)'
  BY <1>1, <1>2, <1>3 DEF Complete
<1>4. ASSUME NEW lp \in Seq(Rel), Accepts(m, lp), pointer'[m] = lp, ~tainted[m],
             held'[m] = held[m], forgotten'[m] = forgotten[m]
      PROVE  Complete(m)'
  BY <1>1, <1>4, AcceptsComplete
<1>5. ASSUME NEW n \in Nodes, PublishPointer(n) PROVE Complete(m)'
  <2>1. CASE m = n
    <3>1. pub[n].rec \in Seq(Rel) /\ pointer'[m] = pub[n].rec /\ UNCHANGED <<held, forgotten>>
      BY <1>5, <2>1 DEF PublishPointer
    <3>2. ~tainted[n] /\ ~pub[n].force
      BY <1>5, <2>1 DEF PublishPointer
    <3> QED BY <1>4, <1>5, <2>1, <3>1, <3>2 DEF PublishPointer
  <2>2. CASE m # n
    BY <1>3, <1>5, <2>2 DEF PublishPointer
  <2> QED BY <2>1, <2>2
<1>6. ASSUME NEW n \in Nodes, NEW lp \in stores, DeliverPointer(n, lp) PROVE Complete(m)'
  <2>1. CASE m = n
    BY <1>4, <1>6, <2>1 DEF DeliverPointer
  <2>2. CASE m # n
    BY <1>3, <1>6, <2>2 DEF DeliverPointer
  <2> QED BY <2>1, <2>2
<1>7. ASSUME NEW n \in Nodes, Restart(n) PROVE Complete(m)'
  <2>1. CASE m = n
    <3>1. pointer'[m] = <<>> /\ Chain(<<>>) = {}
      BY <1>7, <2>1 DEF Restart, Chain
    <3> QED BY <1>1, <3>1
  <2>2. CASE m # n
    BY <1>3, <1>7, <2>2 DEF Restart
  <2> QED BY <2>1, <2>2
<1>8. ASSUME NEW n \in Nodes, PublishRecord(n) \/ \E r : FetchRecord(n, r) PROVE Complete(m)'
  <2>1. UNCHANGED <<pointer, tainted>>
    BY <1>8 DEF PublishRecord, FetchRecord
  <2>2. PICK r : Keep(n, r)
    BY <1>8 DEF PublishRecord, FetchRecord
  <2>3. held[m] \cup forgotten[m] \subseteq held'[m] \cup forgotten'[m]
    BY <2>2 DEF Keep
  <2> QED BY <1>3, <2>1, <2>3
<1>9. ASSUME UNCHANGED <<pointer, held, forgotten, tainted>> PROVE Complete(m)'
  BY <1>3, <1>9
<1>10. ASSUME NEW n \in Nodes, ForgetPointer(n) PROVE Complete(m)'
  <2>1. CASE m = n
    <3>1. pointer'[m] = <<>> /\ Chain(<<>>) = {}
      BY <1>10, <2>1 DEF ForgetPointer, Chain
    <3> QED BY <1>1, <3>1
  <2>2. CASE m # n
    BY <1>3, <1>10, <2>2 DEF ForgetPointer
  <2> QED BY <2>1, <2>2
<1>11. ASSUME NEW n \in Nodes, NEW r, ForgetRecord(n, r) PROVE Complete(m)'
  <2>1. held[m] \cup forgotten[m] \subseteq held'[m] \cup forgotten'[m]
    BY <1>11 DEF ForgetRecord
  <2> QED BY <1>3, <1>11, <2>1 DEF ForgetRecord
<1>12. Restarters \subseteq Nodes /\ Forgetters \subseteq Nodes
  BY RegistryAssumption DEF Restarters, Forgetters, Role
<1> QED BY <1>5, <1>6, <1>7, <1>8, <1>9, <1>10, <1>11, <1>12
        DEF Next, vars, PublishLookup, PublishFails, ReplicatePointer, Lose

LEMMA HistoryInvariant == Spec => []HistoryInv
<1>1. Init => HistoryInv
  BY DEF Init, HistoryInv, HistoryTypes, CompleteHistories, NoPub, Chain
<1>2. HistoryInv /\ [Next]_vars => HistoryInv'
  BY HistoryTypesStep, CompleteStep DEF HistoryInv
<1> QED BY <1>1, <1>2, PTL DEF Spec

(***************************************************************************)
(* CompleteHistories for any number of nodes, key holders, forgers and     *)
(* restarts: what a node has accepted (datastore.go:194-232) it holds with *)
(* the whole history, but for records that it was told to forget, signed   *)
(* by the owner, in increasing versions.                                   *)
(***************************************************************************)
THEOREM AcceptedHistoriesComplete == Spec => []CompleteHistories
BY HistoryInvariant, PTL DEF HistoryInv

-----------------------------------------------------------------------------
(* One publisher.                                                          *)

\* The last release is the publisher's.
ByOwner(h) == h # <<>> /\ Last(h).author = Owner

(***************************************************************************)
(* What bears the publisher's signature is part of its history; publish    *)
(* on its node is about to extend that history, on others it is forced.    *)
(***************************************************************************)
OwnerInv ==
    /\ ~tainted[Owner]
    /\ \A lp \in stores : ByOwner(lp) => IsPrefix(lp, pointer[Owner])
    /\ \A n \in Nodes : ByOwner(pointer[n]) => IsPrefix(pointer[n], pointer[Owner])
    /\ \A n \in Nodes \ {Owner} : pub[n].pc # "idle" =>
         pub[n].force /\ pub[n].rec # <<>> /\ Last(pub[n].rec).author = n
    /\ pub[Owner].pc # "idle" =>
         /\ ~pub[Owner].force
         /\ \E v \in Versions :
              /\ pub[Owner].rec = Append(pointer[Owner], [version |-> v, author |-> Owner])
              /\ pointer[Owner] # <<>> => GreaterThan(v, Last(pointer[Owner]).version)

PublisherInv == HistoryInv /\ (OnePublisher => OwnerInv)

LEMMA OwnerIsNode == HistoryTypes => Owner \in Nodes
BY RegistryAssumption DEF HistoryTypes, Role

LEMMA RolesFixed == [Next]_vars => roles' = roles
BY DEF Next, vars, PublishLookup, PublishRecord, PublishPointer, PublishFails, ReplicatePointer,
       FetchRecord, DeliverPointer, Lose, Restart, ForgetPointer, ForgetRecord

\* What a node accepts bears the publisher's signature.
LEMMA AcceptsByOwner ==
  ASSUME HistoryTypes, OnePublisher, NEW n \in Nodes, NEW lp \in Seq(Rel), Accepts(n, lp)
  PROVE  ByOwner(lp) /\ Len(lp) > Len(pointer[n])
<1>1. pointer[n] \in Seq(Rel)
  BY DEF HistoryTypes
<1>2. lp # <<>> /\ Len(lp) > Len(pointer[n]) /\ Signed(Last(lp))
  BY <1>1, ExtendsIs DEF Accepts
<1> QED BY <1>2 DEF ByOwner, OnePublisher, Signed

\* The publisher itself accepts nothing, from anybody.
LEMMA OwnerAcceptsNothing ==
  ASSUME HistoryTypes, OnePublisher, OwnerInv, NEW lp,
         lp \in stores \/ \E m \in Nodes : lp = pointer[m]
  PROVE  ~Accepts(Owner, lp)
<1> SUFFICES ASSUME Accepts(Owner, lp) PROVE FALSE
  OBVIOUS
<1>1. lp \in Seq(Rel) /\ Owner \in Nodes /\ pointer[Owner] \in Seq(Rel)
  BY OwnerIsNode DEF HistoryTypes
<1>2. ByOwner(lp) /\ Len(lp) > Len(pointer[Owner])
  BY <1>1, AcceptsByOwner
<1>3. IsPrefix(lp, pointer[Owner])
  BY <1>2 DEF OwnerInv
<1> QED BY <1>1, <1>2, <1>3, PrefixIs

LEMMA OwnerInvStep ==
  ASSUME HistoryTypes, OnePublisher, OwnerInv, [Next]_vars
  PROVE  OwnerInv'
<1> DEFINE P == pointer[Owner]
<1>0. /\ Owner \in Nodes /\ KeyHolders = {Owner}
      /\ Owner \notin Forcers /\ Owner \notin Restarters /\ Owner \notin Forgetters
  BY OwnerIsNode DEF OnePublisher
<1>1. ASSUME UNCHANGED <<pointer, pub, stores, tainted>> PROVE OwnerInv'
  BY <1>1 DEF OwnerInv, ByOwner
<1>2. ASSUME NEW n \in Nodes, NEW arg \in VersionArgs, NEW force \in BOOLEAN,
             PublishLookup(n, ParseVersion(arg), force)
      PROVE  OwnerInv'
  <2> DEFINE v == ParseVersion(arg)
  <2>0. PICK curr \in LookupLatestPointer(n) : \E prev \in IF force THEN Histories ELSE {curr} :
          /\ ~force /\ curr # <<>> => GreaterThan(v, Last(curr).version)
          /\ pub' = [pub EXCEPT ![n] =
               [pc |-> "record", force |-> force,
                rec |-> Append(prev, [version |-> v, author |-> n])]]
    BY <1>2 DEF PublishLookup
  <2>1. PICK prev \in IF force THEN Histories ELSE {curr} :
          /\ ~force /\ curr # <<>> => GreaterThan(v, Last(curr).version)
          /\ pub' = [pub EXCEPT ![n] =
               [pc |-> "record", force |-> force,
                rec |-> Append(prev, [version |-> v, author |-> n])]]
    BY <2>0
  <2>2. UNCHANGED <<pointer, stores, tainted>> /\ v \in Versions
    BY <1>2 DEF PublishLookup, Versions
  <2> HIDE DEF v
  <2>3. CASE n = Owner
    <3>1. ~force
      BY <1>0, <1>2, <2>3 DEF PublishLookup
    <3>2. curr = P
      BY <2>1, <2>3, OwnerAcceptsNothing DEF LookupLatestPointer
    <3>3. /\ pub'[Owner] = [pc |-> "record", force |-> FALSE,
                            rec |-> Append(P, [version |-> v, author |-> Owner])]
          /\ \A m \in Nodes \ {Owner} : pub'[m] = pub[m]
      BY <1>0, <2>1, <2>3, <3>1, <3>2 DEF HistoryTypes
    <3>4. \E w \in Versions :
            /\ pub'[Owner].rec = Append(P, [version |-> w, author |-> Owner])
            /\ P # <<>> => GreaterThan(w, Last(P).version)
      <4>1. P # <<>> => GreaterThan(v, Last(P).version)
        BY <2>1, <3>1, <3>2
      <4> QED BY <2>2, <3>3, <4>1
    <3> QED BY <2>2, <3>3, <3>4 DEF OwnerInv, ByOwner
  <2>4. CASE n # Owner
    <3>1. force
      BY <1>0, <1>2, <2>4 DEF PublishLookup
    <3>2. prev \in Seq(Rel)
      BY <2>1, <3>1, HistoriesTyped
    <3>3. /\ pub'[n].force /\ pub'[n].rec = Append(prev, [version |-> v, author |-> n])
          /\ \A m \in Nodes \ {n} : pub'[m] = pub[m]
      BY <2>1, <3>1 DEF HistoryTypes
    <3>4. pub'[n].rec # <<>> /\ Last(pub'[n].rec).author = n
      BY <3>2, <3>3 DEF Last
    <3> QED BY <1>0, <2>2, <2>4, <3>3, <3>4 DEF OwnerInv, ByOwner
  <2> QED BY <2>3, <2>4
<1>3. ASSUME NEW n \in Nodes, PublishRecord(n) PROVE OwnerInv'
  <2>1. \A m \in Nodes : /\ pub'[m].rec = pub[m].rec /\ pub'[m].force = pub[m].force
                         /\ pub'[m].pc # "idle" => pub[m].pc # "idle"
    BY <1>3 DEF PublishRecord, HistoryTypes
  <2>2. UNCHANGED <<pointer, stores, tainted>>
    BY <1>3 DEF PublishRecord
  <2>3. /\ ~tainted'[Owner]
        /\ \A lp \in stores' : ByOwner(lp) => IsPrefix(lp, pointer'[Owner])
        /\ \A m \in Nodes : ByOwner(pointer'[m]) => IsPrefix(pointer'[m], pointer'[Owner])
    BY <2>2 DEF OwnerInv
  <2>4. \A m \in Nodes \ {Owner} : pub'[m].pc # "idle" =>
          pub'[m].force /\ pub'[m].rec # <<>> /\ Last(pub'[m].rec).author = m
    BY <2>1 DEF OwnerInv
  <2>5. pub'[Owner].pc # "idle" =>
          /\ ~pub'[Owner].force
          /\ \E v \in Versions :
               /\ pub'[Owner].rec = Append(P, [version |-> v, author |-> Owner])
               /\ P # <<>> => GreaterThan(v, Last(P).version)
    BY <1>0, <2>1 DEF OwnerInv
  <2> QED BY <2>2, <2>3, <2>4, <2>5 DEF OwnerInv, ByOwner
<1>4. ASSUME NEW n \in Nodes, PublishPointer(n) PROVE OwnerInv'
  <2>1. /\ pub[n].pc # "idle" /\ pub'[n].pc = "idle"
        /\ pointer'[n] = pub[n].rec /\ stores' = stores \cup {pub[n].rec}
        /\ \A m \in Nodes \ {n} : pub'[m] = pub[m] /\ pointer'[m] = pointer[m] /\ tainted'[m] = tainted[m]
        /\ ~pub[n].force /\ ~tainted[n] => ~tainted'[n]
    BY <1>4 DEF PublishPointer, HistoryTypes, NoPub
  <2>2. CASE n = Owner
    <3>1. PICK v \in Versions : pub[Owner].rec = Append(P, [version |-> v, author |-> Owner])
      BY <2>1, <2>2 DEF OwnerInv
    <3>2. /\ P \in Seq(Rel) /\ pointer'[Owner] \in Seq(Rel)
          /\ pointer'[Owner] = Append(P, [version |-> v, author |-> Owner])
          /\ [version |-> v, author |-> Owner] \in Rel
      BY <1>0, <2>1, <2>2, <3>1 DEF HistoryTypes, Rel
    <3>3. ASSUME NEW h \in Seq(Rel), IsPrefix(h, P) PROVE IsPrefix(h, pointer'[Owner])
      BY <3>2, <3>3, PrefixAppend
    <3>4. IsPrefix(pointer'[Owner], pointer'[Owner])
      BY <3>2, PrefixSelf
    <3>5. stores \subseteq Seq(Rel) /\ \A m \in Nodes : pointer[m] \in Seq(Rel)
      BY DEF HistoryTypes
    <3>6. ~tainted'[Owner]
      BY <1>0, <2>1, <2>2 DEF OwnerInv
    <3> QED BY <1>0, <2>1, <2>2, <3>3, <3>4, <3>5, <3>6 DEF OwnerInv, ByOwner
  <2>3. CASE n # Owner
    <3>1. ~ByOwner(pub[n].rec)
      BY <2>1, <2>3 DEF OwnerInv, ByOwner
    <3>2. pointer'[Owner] = P /\ pub'[Owner] = pub[Owner] /\ tainted'[Owner] = tainted[Owner]
      BY <1>0, <2>1, <2>3
    <3>3. \A lp \in stores' : ByOwner(lp) => IsPrefix(lp, P)
      BY <2>1, <3>1 DEF OwnerInv
    <3>4. \A m \in Nodes : ByOwner(pointer'[m]) => IsPrefix(pointer'[m], P)
      BY <2>1, <3>1 DEF OwnerInv
    <3>5. \A m \in Nodes \ {Owner} : pub'[m].pc # "idle" => pub'[m] = pub[m]
      BY <2>1
    <3> QED BY <3>2, <3>3, <3>4, <3>5 DEF OwnerInv, ByOwner
  <2> QED BY <2>2, <2>3
<1>5. ASSUME NEW n \in Nodes, PublishFails(n) PROVE OwnerInv'
  <2>1. \A m \in Nodes : pub'[m].pc # "idle" => pub'[m] = pub[m]
    BY <1>5 DEF PublishFails, NoPub, HistoryTypes
  <2> QED BY <1>0, <1>5, <2>1 DEF PublishFails, OwnerInv, ByOwner
<1>6. ASSUME NEW n \in Nodes, ReplicatePointer(n) PROVE OwnerInv'
  BY <1>6 DEF ReplicatePointer, OwnerInv, ByOwner
<1>7. ASSUME NEW n \in Nodes, NEW lp \in stores, DeliverPointer(n, lp) PROVE OwnerInv'
  <2>1. n # Owner
    BY <1>7, OwnerAcceptsNothing DEF DeliverPointer
  <2>2. pointer'[n] = lp /\ \A m \in Nodes \ {n} : pointer'[m] = pointer[m]
    BY <1>7 DEF DeliverPointer, HistoryTypes
  <2> QED BY <1>0, <1>7, <2>1, <2>2 DEF DeliverPointer, OwnerInv, ByOwner
<1>8. ASSUME NEW lp \in stores, Lose(lp) PROVE OwnerInv'
  BY <1>8 DEF Lose, OwnerInv, ByOwner
<1>9. ASSUME NEW n \in Restarters, Restart(n) PROVE OwnerInv'
  <2>1. n \in Nodes \ {Owner}
    BY <1>0, RegistryAssumption DEF HistoryTypes, Role, Restarters
  <2>2. /\ pointer'[n] = <<>> /\ pub'[n].pc = "idle"
        /\ \A m \in Nodes \ {n} : pub'[m] = pub[m] /\ pointer'[m] = pointer[m] /\ tainted'[m] = tainted[m]
    BY <1>9, <2>1 DEF Restart, HistoryTypes, NoPub
  <2>3. stores' = stores
    BY <1>9 DEF Restart
  <2>4. /\ pointer'[Owner] = P /\ pub'[Owner] = pub[Owner] /\ ~tainted'[Owner]
    BY <1>0, <2>1, <2>2 DEF OwnerInv
  <2>5. \A m \in Nodes : ByOwner(pointer'[m]) => IsPrefix(pointer'[m], P)
    BY <2>2 DEF OwnerInv, ByOwner
  <2>6. \A m \in Nodes \ {Owner} : pub'[m].pc # "idle" => pub'[m] = pub[m]
    BY <2>2
  <2> QED BY <2>3, <2>4, <2>5, <2>6 DEF OwnerInv, ByOwner
<1>10. ASSUME NEW n \in Forgetters, ForgetPointer(n) PROVE OwnerInv'
  <2>1. n \in Nodes \ {Owner}
    BY <1>0, RegistryAssumption DEF HistoryTypes, Role, Forgetters
  <2>2. /\ pointer'[n] = <<>> /\ UNCHANGED <<pub, stores>>
        /\ \A m \in Nodes \ {n} : pointer'[m] = pointer[m] /\ tainted'[m] = tainted[m]
    BY <1>10, <2>1 DEF ForgetPointer, HistoryTypes
  <2>3. pointer'[Owner] = P /\ ~tainted'[Owner]
    BY <1>0, <2>1, <2>2 DEF OwnerInv
  <2>4. \A m \in Nodes : ByOwner(pointer'[m]) => IsPrefix(pointer'[m], P)
    BY <2>2 DEF OwnerInv, ByOwner
  <2> QED BY <2>2, <2>3, <2>4 DEF OwnerInv, ByOwner
<1> QED BY <1>1, <1>2, <1>3, <1>4, <1>5, <1>6, <1>7, <1>8, <1>9, <1>10
        DEF Next, vars, FetchRecord, ForgetRecord

LEMMA PublisherInvariant == Spec => []PublisherInv
<1>1. Init => PublisherInv
  <2> SUFFICES ASSUME Init PROVE PublisherInv
    OBVIOUS
  <2>1. HistoryInv
    BY DEF Init, HistoryInv, HistoryTypes, CompleteHistories, NoPub, Chain
  <2>2. Owner \in Nodes
    BY <2>1, OwnerIsNode DEF HistoryInv
  <2> QED BY <2>1, <2>2 DEF Init, PublisherInv, OwnerInv, ByOwner, NoPub
<1>2. PublisherInv /\ [Next]_vars => PublisherInv'
  <2> SUFFICES ASSUME PublisherInv, [Next]_vars PROVE PublisherInv'
    OBVIOUS
  <2>1. HistoryInv'
    BY HistoryTypesStep, CompleteStep DEF HistoryInv, PublisherInv
  <2>2. OnePublisher' <=> OnePublisher
    BY RolesFixed DEF OnePublisher, KeyHolders, Forcers, Restarters, Forgetters
  <2> QED BY <2>1, <2>2, OwnerInvStep DEF PublisherInv, HistoryInv
<1> QED BY <1>1, <1>2, PTL DEF Spec

-----------------------------------------------------------------------------
(* The refinement.                                                         *)

published == IF OnePublisher THEN pointer[Owner] ELSE <<>>

views == [n \in Nodes |-> IF OnePublisher /\ ~tainted[n] THEN pointer[n] ELSE <<>>]

(***************************************************************************)
(* Every step of the registry is a step of PackageHistory, or changes      *)
(* nothing of it: publishing a pointer is a release, accepting one is      *)
(* catching up; a restart, a forget and a forced publication lose a view.  *)
(***************************************************************************)
LEMMA Simulation ==
  ASSUME PublisherInv, [Next]_vars
  PROVE  [Abstract!Next]_(Abstract!vars)
<1>0. /\ HistoryTypes /\ HistoryTypes'
      /\ roles' = roles /\ (OnePublisher' <=> OnePublisher)
  BY HistoryTypesStep, RolesFixed DEF PublisherInv, HistoryInv, OnePublisher, KeyHolders, Forcers,
     Restarters, Forgetters
<1>1. (published' = published /\ views' = views) => UNCHANGED Abstract!vars
  BY DEF Abstract!vars, published, views
<1>2. CASE ~OnePublisher
  BY <1>0, <1>1, <1>2 DEF published, views
<1>3. CASE OnePublisher
  <2> USE DEF HistoryTypes
  <2>0. OwnerInv /\ CompleteHistories /\ Owner \in Nodes /\ OnePublisher'
    BY <1>0, <1>3, OwnerIsNode DEF PublisherInv, HistoryInv
  <2>1. /\ published = pointer[Owner] /\ published' = pointer'[Owner]
        /\ views = [n \in Nodes |-> IF ~tainted[n] THEN pointer[n] ELSE <<>>]
        /\ views' = [n \in Nodes |-> IF ~tainted'[n] THEN pointer'[n] ELSE <<>>]
    BY <1>3, <2>0 DEF published, views
  <2>2. ASSUME UNCHANGED <<pointer, tainted>> PROVE UNCHANGED Abstract!vars
    BY <1>1, <2>1, <2>2
  <2>3. ASSUME NEW n \in Nodes \ {Owner}, published' = published, views' = [views EXCEPT ![n] = <<>>]
        PROVE  Abstract!Next
    BY <2>3 DEF Abstract!Next, Abstract!Forget, published, views
  <2>4. ASSUME NEW n \in Nodes, PublishPointer(n) PROVE [Abstract!Next]_(Abstract!vars)
    <3>1. CASE n = Owner
      <4>1. PICK v \in Versions :
              /\ pub[Owner].rec = Append(pointer[Owner], [version |-> v, author |-> Owner])
              /\ pointer[Owner] # <<>> => GreaterThan(v, Last(pointer[Owner]).version)
        BY <2>0, <2>4, <3>1 DEF PublishPointer, OwnerInv
      <4>2. ~tainted'[Owner] /\ \A m \in Nodes \ {Owner} : tainted'[m] = tainted[m] /\ pointer'[m] = pointer[m]
        BY <1>0, <2>0, <2>4, <3>1 DEF PublishPointer, OwnerInv
      <4>3. published' = Append(published, [version |-> v, author |-> Owner])
        BY <1>0, <2>0, <2>1, <2>4, <3>1, <4>1 DEF PublishPointer
      <4>4. views' = [views EXCEPT ![Owner] = published']
        BY <2>0, <2>1, <4>2
      <4>5. published # <<>> => GreaterThan(v, Last(published).version)
        BY <2>1, <4>1
      <4>6. Abstract!Release(v)
        BY <4>3, <4>4, <4>5 DEF Abstract!Release, Abstract!GreaterThan, Abstract!Compare,
           Abstract!CompareNumbers, GreaterThan, Compare, CompareNumbers, Last, Abstract!Last, published, views
      <4> QED BY <4>6 DEF Abstract!Next
    <3>2. CASE n # Owner
      <4>1. tainted'[n]
        BY <1>0, <2>0, <2>4, <3>2 DEF PublishPointer, OwnerInv
      <4>2. \A m \in Nodes \ {n} : tainted'[m] = tainted[m] /\ pointer'[m] = pointer[m]
        BY <2>4 DEF PublishPointer
      <4> QED BY <2>0, <2>1, <2>3, <3>2, <4>1, <4>2
    <3> QED BY <3>1, <3>2
  <2>5. ASSUME NEW n \in Nodes, NEW lp \in stores, DeliverPointer(n, lp)
        PROVE  [Abstract!Next]_(Abstract!vars)
    <3>1. /\ Accepts(n, lp) /\ tainted' = tainted /\ pointer' = [pointer EXCEPT ![n] = lp]
          /\ n # Owner /\ published' = published
      BY <1>0, <1>3, <2>0, <2>1, <2>5, OwnerAcceptsNothing DEF DeliverPointer
    <3>2. CASE tainted[n]
      <4>1. views' = views
        BY <2>1, <3>1, <3>2
      <4> QED BY <1>1, <3>1, <4>1
    <3>3. CASE ~tainted[n]
      <4>1. lp \in Seq(Rel) /\ pointer[n] \in Seq(Rel) /\ published \in Seq(Rel)
        BY <1>0, <2>0, <2>1
      <4>2. ByOwner(lp) /\ Len(lp) > Len(pointer[n])
        BY <1>0, <1>3, <3>1, <4>1, AcceptsByOwner
      <4>3. IsPrefix(lp, published)
        BY <2>0, <2>1, <4>2 DEF OwnerInv
      <4>4. Len(lp) <= Len(published) /\ SubSeq(published, 1, Len(lp)) = lp
        <5>1. SubSeq(lp, 1, Len(lp)) = lp
          BY <4>1
        <5> QED BY <4>3, <5>1 DEF IsPrefix
      <4>5. views[n] = pointer[n] /\ views' = [views EXCEPT ![n] = lp]
        BY <1>0, <2>0, <2>1, <3>1, <3>3
      <4>6. Len(lp) \in Len(views[n]) + 1..Len(published)
        BY <4>1, <4>2, <4>4, <4>5
      <4>7. Abstract!CatchUp(n)
        BY <3>1, <4>4, <4>5, <4>6 DEF Abstract!CatchUp, published, views
      <4> QED BY <4>7 DEF Abstract!Next
    <3> QED BY <3>2, <3>3
  <2>6. ASSUME NEW n \in Restarters, Restart(n) PROVE [Abstract!Next]_(Abstract!vars)
    <3>1. n \in Nodes \ {Owner}
      BY <1>0, <1>3, RegistryAssumption DEF Role, Restarters, OnePublisher
    <3>2. pointer' = [pointer EXCEPT ![n] = <<>>] /\ tainted' = [tainted EXCEPT ![n] = FALSE]
      BY <2>6 DEF Restart
    <3> QED BY <1>0, <2>0, <2>1, <2>3, <3>1, <3>2
  <2>7. ASSUME NEW n \in Forgetters, ForgetPointer(n) PROVE [Abstract!Next]_(Abstract!vars)
    <3>1. n \in Nodes \ {Owner}
      BY <1>0, <1>3, RegistryAssumption DEF Role, Forgetters, OnePublisher
    <3>2. pointer' = [pointer EXCEPT ![n] = <<>>] /\ tainted' = [tainted EXCEPT ![n] = FALSE]
      BY <2>7 DEF ForgetPointer
    <3> QED BY <1>0, <2>0, <2>1, <2>3, <3>1, <3>2
  <2> QED BY <2>2, <2>4, <2>5, <2>6, <2>7 DEF Next, vars, PublishLookup, PublishRecord, PublishFails,
          ReplicatePointer, FetchRecord, Lose, ForgetRecord
<1> QED BY <1>2, <1>3

(***************************************************************************)
(* The registry implements PackageHistory, for any number of nodes, of     *)
(* versions, and of forged publications: with one publisher that keeps     *)
(* running there is one growing history, and the stores of all nodes but   *)
(* those that forced a pointer hold lagging views of it.                   *)
(***************************************************************************)
THEOREM RegistryImplementsPackageHistory == Spec => ImplementsPackageHistory
<1>1. Init => Abstract!Init
  <2> SUFFICES ASSUME Init PROVE Abstract!Init
    OBVIOUS
  <2>1. Owner \in Nodes
    BY RegistryAssumption DEF Init, Role
  <2> QED BY <2>1 DEF Init, Abstract!Init
<1>2. PublisherInv /\ [Next]_vars => [Abstract!Next]_(Abstract!vars)
  BY Simulation
<1> QED BY <1>1, <1>2, PublisherInvariant, PTL DEF Spec, ImplementsPackageHistory, Abstract!Spec

LEMMA InstallsInHistory ==
  ASSUME PublisherInv, OnePublisher, NEW n \in Nodes, NEW v \in Versions, NEW rec \in Installs(n, v)
  PROVE  rec \in Chain(pointer[Owner])
<1>1. PICK lp \in LookupLatestPointer(n) : lp # <<>> /\ Signed(Last(lp)) /\ rec \in Chain(lp)
  BY DEF Installs
<1>2. PICK m \in Nodes : lp = pointer[m]
  BY <1>1 DEF LookupLatestPointer
<1>3. /\ lp \in Seq(Rel) /\ pointer[Owner] \in Seq(Rel)
      /\ IsPrefix(lp, pointer[Owner])
  BY <1>1, <1>2, OwnerIsNode
     DEF PublisherInv, HistoryInv, HistoryTypes, OwnerInv, ByOwner, OnePublisher, Signed
<1>4. PICK i \in 1..Len(lp) : rec = SubSeq(lp, 1, i)
  BY <1>1 DEF Chain
<1>5. i \in 1..Len(pointer[Owner]) /\ \A j \in 1..i : lp[j] = pointer[Owner][j]
  BY <1>3, <1>4, PrefixIs
<1>6. SubSeq(lp, 1, i) = SubSeq(pointer[Owner], 1, i)
  BY <1>3, <1>4, <1>5
<1> QED BY <1>4, <1>5, <1>6 DEF Chain

(***************************************************************************)
(* InstallAgreement for any number of nodes: install (HandleInstall in     *)
(* cli.go), on whatever node, takes a release of the publisher's history.  *)
(***************************************************************************)
THEOREM InstallsAgree == Spec => []InstallAgreement
<1>1. PublisherInv => InstallAgreement
  BY InstallsInHistory DEF InstallAgreement
<1> QED BY <1>1, PublisherInvariant, PTL

-----------------------------------------------------------------------------
(* The type invariant.                                                     *)

LEMMA HistoriesAre ==
  ASSUME NEW h
  PROVE  h \in Histories <=> h \in Seq(Releases) /\ Len(h) <= MaxHistory
<1>1. MaxHistory \in Nat
  BY RegistryAssumption
<1>2. ASSUME NEW m \in 0..MaxHistory, h \in [1..m -> Releases]
      PROVE  h \in Seq(Releases) /\ Len(h) <= MaxHistory
  BY <1>1, <1>2
<1>3. ASSUME h \in Seq(Releases), Len(h) <= MaxHistory
      PROVE  Len(h) \in 0..MaxHistory /\ h \in [1..Len(h) -> Releases]
  BY <1>1, <1>3
<1> QED BY <1>2, <1>3 DEF Histories, SeqOf

LEMMA EmptyHistory == <<>> \in Histories
<1>1. <<>> \in Seq(Releases) /\ Len(<<>>) = 0
  OBVIOUS
<1>2. 0 <= MaxHistory
  BY RegistryAssumption
<1> QED BY <1>1, <1>2, HistoriesAre

LEMMA TypeStep ==
  ASSUME HistoryTypes, TypeOK, [Next]_vars
  PROVE  TypeOK'
<1> DEFINE Pubs == {NoPub} \cup [pc : {"record", "pointer"}, rec : Records, force : BOOLEAN]
<1>1. Records' = Records /\ Histories' = Histories
  BY RolesFixed DEF Records, Histories, Releases, KeyHolders, Forcers
<1>2. Records \subseteq Histories /\ <<>> \in Histories /\ Histories \ {<<>>} = Records
  BY EmptyHistory DEF Records
<1>3. MaxForced \in Nat /\ Restarters \subseteq Nodes /\ Forgetters \subseteq Nodes
  BY RegistryAssumption DEF HistoryTypes, Role, Restarters, Forgetters
<1> HIDE DEF Pubs
<1>4. SUFFICES /\ pointer' \in [Nodes -> Histories]
               /\ held' \in [Nodes -> SUBSET Records]
               /\ pub' \in [Nodes -> Pubs]
               /\ stores' \subseteq Records
               /\ forgotten' \in [Nodes -> SUBSET Records]
               /\ tainted' \in [Nodes -> BOOLEAN]
               /\ forced' \in 0..MaxForced
  BY <1>1 DEF TypeOK, Pubs
<1>5. /\ pointer \in [Nodes -> Histories] /\ held \in [Nodes -> SUBSET Records]
      /\ pub \in [Nodes -> Pubs] /\ stores \subseteq Records
      /\ forgotten \in [Nodes -> SUBSET Records]
      /\ tainted \in [Nodes -> BOOLEAN] /\ forced \in 0..MaxForced
  BY DEF TypeOK, Pubs
<1>6. \A n \in Nodes : pub[n].pc # "idle" =>
        /\ pub[n].rec \in Records /\ [pub[n] EXCEPT !.pc = "pointer"] \in Pubs
  BY <1>5 DEF Pubs, NoPub
<1>7. NoPub \in Pubs
  BY DEF Pubs
<1> DEFINE Goal == /\ pointer' \in [Nodes -> Histories]
                   /\ held' \in [Nodes -> SUBSET Records]
                   /\ pub' \in [Nodes -> Pubs]
                   /\ stores' \subseteq Records
                   /\ forgotten' \in [Nodes -> SUBSET Records]
                   /\ tainted' \in [Nodes -> BOOLEAN]
                   /\ forced' \in 0..MaxForced
<1>8. ASSUME NEW n \in Nodes, NEW arg \in VersionArgs, NEW force \in BOOLEAN,
             PublishLookup(n, ParseVersion(arg), force)
      PROVE  Goal
  <2> DEFINE v == ParseVersion(arg)
             release == [version |-> v, author |-> n]
  <2>1. PICK curr \in LookupLatestPointer(n) : \E prev \in IF force THEN Histories ELSE {curr} :
          /\ Len(prev) < MaxHistory
          /\ pub' = [pub EXCEPT ![n] =
               [pc |-> "record", force |-> force, rec |-> Append(prev, release)]]
    BY <1>8 DEF PublishLookup
  <2>2. PICK prev \in IF force THEN Histories ELSE {curr} :
          /\ Len(prev) < MaxHistory
          /\ pub' = [pub EXCEPT ![n] =
               [pc |-> "record", force |-> force, rec |-> Append(prev, release)]]
    BY <2>1
  <2>3. prev \in Histories
    BY <1>2, <1>5, <2>1, <2>2 DEF LookupLatestPointer
  <2>4. release \in Releases
    BY <1>8 DEF PublishLookup, Releases, Versions
  <2>5. Append(prev, release) \in Records
    <3>1. prev \in Seq(Releases) /\ Len(prev) + 1 <= MaxHistory
      BY <2>2, <2>3, HistoriesAre, RegistryAssumption
    <3>2. Append(prev, release) \in Seq(Releases) /\ Len(Append(prev, release)) = Len(prev) + 1
      BY <2>4, <3>1
    <3>3. Append(prev, release) # <<>>
      <4>1. Len(prev) \in Nat /\ Len(<<>>) = 0
        BY <3>1
      <4> QED BY <3>2, <4>1
    <3>4. Append(prev, release) \in Histories
      BY <3>1, <3>2, HistoriesAre
    <3> QED BY <3>3, <3>4 DEF Records
  <2>6. [pc |-> "record", force |-> force, rec |-> Append(prev, release)] \in Pubs
    BY <2>5 DEF Pubs
  <2>7. pub' \in [Nodes -> Pubs]
    BY <1>5, <2>2, <2>6
  <2>8. forced' \in 0..MaxForced
    BY <1>3, <1>5, <1>8 DEF PublishLookup
  <2> QED BY <1>5, <1>8, <2>7, <2>8 DEF PublishLookup
<1>9. ASSUME NEW n \in Nodes, PublishRecord(n) PROVE Goal
  <2>1. pub[n].pc # "idle" /\ pub' = [pub EXCEPT ![n] = [pub[n] EXCEPT !.pc = "pointer"]]
    BY <1>9 DEF PublishRecord
  <2>2. pub' \in [Nodes -> Pubs]
    BY <1>5, <1>6, <2>1
  <2> QED BY <1>5, <1>6, <1>9, <2>1, <2>2 DEF PublishRecord, Keep
<1>10. ASSUME NEW n \in Nodes, PublishPointer(n) PROVE Goal
  <2>1. pub[n].rec \in Records
    BY <1>6, <1>10 DEF PublishPointer
  <2>2. tainted' \in [Nodes -> BOOLEAN]
    BY <1>5, <1>10 DEF PublishPointer, HistoryTypes
  <2> QED BY <1>2, <1>5, <1>7, <1>10, <2>1, <2>2 DEF PublishPointer
<1>11. ASSUME NEW n \in Nodes, PublishFails(n) PROVE Goal
  BY <1>5, <1>7, <1>11 DEF PublishFails
<1>12. ASSUME NEW n \in Nodes, ReplicatePointer(n) PROVE Goal
  BY <1>2, <1>5, <1>12 DEF ReplicatePointer
<1>13. ASSUME NEW n \in Nodes, NEW m \in Nodes, NEW r \in held[m], FetchRecord(n, r) PROVE Goal
  BY <1>5, <1>13 DEF FetchRecord, Keep
<1>14. ASSUME NEW n \in Nodes, NEW lp \in stores, DeliverPointer(n, lp) PROVE Goal
  BY <1>2, <1>5, <1>14 DEF DeliverPointer
<1>15. ASSUME NEW lp \in stores, Lose(lp) PROVE Goal
  BY <1>5, <1>15 DEF Lose
<1>16. ASSUME NEW n \in Restarters, Restart(n) PROVE Goal
  BY <1>2, <1>3, <1>5, <1>7, <1>16 DEF Restart
<1>17. ASSUME UNCHANGED vars PROVE Goal
  BY <1>5, <1>17 DEF vars
<1>18. ASSUME NEW n \in Forgetters, ForgetPointer(n) PROVE Goal
  BY <1>2, <1>3, <1>5, <1>18 DEF ForgetPointer
<1>19. ASSUME NEW n \in Forgetters, NEW r \in held[n], ForgetRecord(n, r) PROVE Goal
  BY <1>3, <1>5, <1>19 DEF ForgetRecord
<1> HIDE DEF Goal
<1>20. Goal
  BY <1>8, <1>9, <1>10, <1>11, <1>12, <1>13, <1>14, <1>15, <1>16, <1>17, <1>18, <1>19 DEF Next
<1> QED BY <1>20 DEF Goal

(***************************************************************************)
(* Pointers, records and publications keep their types: publish never      *)
(* stores or sends the empty history, which would be taken for ZeroHash.   *)
(***************************************************************************)
THEOREM RegistryTypes == Spec => []TypeOK
<1>1. Init => TypeOK
  <2>1. 0 \in 0..MaxForced
    BY RegistryAssumption
  <2> QED BY <2>1, EmptyHistory DEF Init, TypeOK
<1>2. HistoryInv /\ TypeOK /\ [Next]_vars => TypeOK'
  BY TypeStep DEF HistoryInv
<1> QED BY <1>1, <1>2, HistoryInvariant, PTL DEF Spec

-----------------------------------------------------------------------------
(* Whole histories.                                                        *)

\* A nonempty set of natural numbers has a least element.
LEMMA LeastNat ==
  ASSUME NEW T \in SUBSET Nat, T # {}
  PROVE  \E x \in T : \A y \in T : x <= y
<1>1. PICK x \in T : \A y \in T : ~(<<y, x>> \in OpToRel(<, Nat))
  BY NatLessThanWellFounded, WFMin
<1>2. ASSUME NEW y \in T PROVE x <= y
  <2>1. ~(y < x)
    BY <1>1 DEF OpToRel
  <2> QED BY <2>1
<1> QED BY <1>2

LEMMA VersionsAre == Versions \subseteq Version
<1> SUFFICES ASSUME NEW arg \in VersionArgs PROVE ParseVersion(arg) \in Version
  BY DEF Versions
<1>1. arg \in Seq(Nat) /\ Len(arg) \in 1..3
  BY RegistryAssumption
<1>2. \A i \in 1..Len(arg) : arg[i] \in Nat
  BY <1>1
<1> QED BY <1>1, <1>2 DEF ParseVersion, Version

\* Versions that increase from each record to the next increase throughout:
\* the least position at which they do not would contradict transitivity.
LEMMA IncreasingThroughout ==
  ASSUME NEW h \in Seq(Rel),
         \A i \in 1..Len(h) : i > 1 => GreaterThan(h[i].version, h[i - 1].version)
  PROVE  \A j \in 1..Len(h) : \A i \in 1..(j - 1) : GreaterThan(h[j].version, h[i].version)
<1> DEFINE Bad == {j \in 1..Len(h) : \E i \in 1..(j - 1) : ~GreaterThan(h[j].version, h[i].version)}
<1>0. Len(h) \in Nat /\ \A i \in 1..Len(h) : h[i].version \in Version
  <2>1. Len(h) \in Nat /\ \A i \in 1..Len(h) : h[i] \in Rel
    OBVIOUS
  <2>2. \A r \in Rel : r.version \in Version
    BY VersionsAre DEF Rel
  <2> QED BY <2>1, <2>2
<1>1. SUFFICES ASSUME Bad # {} PROVE FALSE
  OBVIOUS
<1>2. Bad \in SUBSET Nat
  BY <1>0
<1>3. PICK j \in Bad : \A k \in Bad : j <= k
  BY <1>1, <1>2, LeastNat
<1>4. PICK i \in 1..(j - 1) : ~GreaterThan(h[j].version, h[i].version)
  BY <1>3
<1>5. j \in 1..Len(h) /\ j > 1 /\ j - 1 \in 1..Len(h) /\ i \in 1..Len(h)
  BY <1>0, <1>3, <1>4
<1>6. GreaterThan(h[j].version, h[j - 1].version)
  BY <1>5
<1>7. i # j - 1
  BY <1>4, <1>6
<1>8. i \in 1..((j - 1) - 1)
  BY <1>4, <1>5, <1>7
<1>9. j - 1 \notin Bad
  BY <1>3, <1>5
<1>10. GreaterThan(h[j - 1].version, h[i].version)
  BY <1>5, <1>8, <1>9
<1> QED BY <1>0, <1>4, <1>5, <1>6, <1>10, GreaterThanTransitive

\* A complete history has each version once, and its last is the newest.
LEMMA CompleteIncreasing ==
  ASSUME HistoryInv, NEW n \in Nodes, ~tainted[n], NEW j \in 1..Len(pointer[n]), NEW i \in 1..(j - 1)
  PROVE  GreaterThan(pointer[n][j].version, pointer[n][i].version)
<1> DEFINE h == pointer[n]
<1>1. h \in Seq(Rel) /\ (Extends(h, <<>>) \/ h = <<>>)
  BY DEF HistoryInv, HistoryTypes, CompleteHistories
<1>2. h # <<>>
  OBVIOUS
<1>3. \A k \in 1..Len(h) : k > 1 => GreaterThan(h[k].version, h[k - 1].version)
  <2>1. Len(<<>>) + 1 = 1
    OBVIOUS
  <2> QED BY <1>1, <1>2, <2>1 DEF Extends
<1> HIDE DEF h
<1>4. GreaterThan(h[j].version, h[i].version)
  BY <1>1, <1>3, IncreasingThroughout DEF h
<1> QED BY <1>4 DEF h

(***************************************************************************)
(* The validator compares a release with its predecessor only; yet in the  *)
(* history of a pointer that a node accepted every release is newer than   *)
(* all that came before it, so that no version occurs twice.               *)
(***************************************************************************)
THEOREM VersionsIncreaseThroughout ==
  Spec => [](\A n \in Nodes : ~tainted[n] =>
               \A j \in 1..Len(pointer[n]) : \A i \in 1..(j - 1) :
                   GreaterThan(pointer[n][j].version, pointer[n][i].version))
<1>1. HistoryInv => (\A n \in Nodes : ~tainted[n] =>
               \A j \in 1..Len(pointer[n]) : \A i \in 1..(j - 1) :
                   GreaterThan(pointer[n][j].version, pointer[n][i].version))
  BY CompleteIncreasing
<1> QED BY <1>1, HistoryInvariant, PTL

LEMMA InstallsFromOwner ==
  ASSUME PublisherInv, OnePublisher, NEW n \in Nodes, NEW v \in Versions, NEW rec \in Installs(n, v)
  PROVE  \E i \in 1..Len(pointer[Owner]) :
           rec = SubSeq(pointer[Owner], 1, i) /\ pointer[Owner][i].version = v
<1>1. rec \in Chain(pointer[Owner]) /\ Last(rec).version = v
  BY InstallsInHistory DEF Installs
<1>2. PICK i \in 1..Len(pointer[Owner]) : rec = SubSeq(pointer[Owner], 1, i)
  BY <1>1 DEF Chain
<1>3. pointer[Owner] \in Seq(Rel)
  BY OwnerIsNode DEF PublisherInv, HistoryInv, HistoryTypes
<1>4. Len(rec) = i /\ rec[i] = pointer[Owner][i]
  BY <1>2, <1>3
<1> QED BY <1>1, <1>2, <1>4 DEF Last

(***************************************************************************)
(* With one publisher, any two installs of a version, on whatever nodes,   *)
(* install the same release.                                               *)
(***************************************************************************)
THEOREM InstallsSame ==
  Spec => [](OnePublisher => \A n, m \in Nodes, v \in Versions :
               \A rec \in Installs(n, v), other \in Installs(m, v) : rec = other)
<1>1. PublisherInv => (OnePublisher => \A n, m \in Nodes, v \in Versions :
               \A rec \in Installs(n, v), other \in Installs(m, v) : rec = other)
  <2> SUFFICES ASSUME PublisherInv, OnePublisher, NEW n \in Nodes, NEW m \in Nodes, NEW v \in Versions,
                      NEW rec \in Installs(n, v), NEW other \in Installs(m, v)
               PROVE  rec = other
    OBVIOUS
  <2> DEFINE P == pointer[Owner]
  <2>1. PICK i \in 1..Len(P) : rec = SubSeq(P, 1, i) /\ P[i].version = v
    BY InstallsFromOwner
  <2>2. PICK j \in 1..Len(P) : other = SubSeq(P, 1, j) /\ P[j].version = v
    BY InstallsFromOwner
  <2>3. Owner \in Nodes /\ ~tainted[Owner] /\ HistoryInv /\ v \in Version
    BY OwnerIsNode, VersionsAre DEF PublisherInv, HistoryInv, OwnerInv
  <2>4. ~GreaterThan(v, v)
    BY <2>3, VersionsTotallyOrdered
  <2>5. ~(i < j)
    <3>1. i < j => i \in 1..(j - 1)
      BY <2>1, <2>2
    <3> QED BY <2>1, <2>2, <2>3, <2>4, <3>1, CompleteIncreasing
  <2>6. ~(j < i)
    <3>1. j < i => j \in 1..(i - 1)
      BY <2>1, <2>2
    <3> QED BY <2>1, <2>2, <2>3, <2>4, <3>1, CompleteIncreasing
  <2>7. i = j
    BY <2>5, <2>6
  <2> QED BY <2>1, <2>2, <2>7
<1> QED BY <1>1, PublisherInvariant, PTL

(***************************************************************************)
(* With one publisher the check of publish is the one the assignment asks  *)
(* for: without --force the command goes on to its uploads only with a     *)
(* version greater than that of every pointer a node has accepted.  With   *)
(* two publishers it is not (the run of CheckedBeforeUpload).              *)
(***************************************************************************)
THEOREM CheckedWithOnePublisher ==
  Spec => [][OnePublisher => \A n \in Nodes, v \in Versions :
               PublishLookup(n, v, FALSE) =>
                   \A m \in Nodes : ~tainted[m] /\ pointer[m] # <<>> =>
                       GreaterThan(v, Last(pointer[m]).version)]_vars
<1> DEFINE Checked == OnePublisher => \A n \in Nodes, v \in Versions :
               PublishLookup(n, v, FALSE) =>
                   \A m \in Nodes : ~tainted[m] /\ pointer[m] # <<>> =>
                       GreaterThan(v, Last(pointer[m]).version)
<1>1. PublisherInv => Checked
  <2> SUFFICES ASSUME PublisherInv, OnePublisher, NEW n \in Nodes, NEW v \in Versions,
                      PublishLookup(n, v, FALSE),
                      NEW m \in Nodes, ~tainted[m], pointer[m] # <<>>
               PROVE  GreaterThan(v, Last(pointer[m]).version)
    OBVIOUS
  <2> DEFINE P == pointer[Owner]
             h == pointer[m]
  <2>1. HistoryInv /\ HistoryTypes /\ OwnerInv /\ Owner \in Nodes /\ ~tainted[Owner]
    BY OwnerIsNode DEF PublisherInv, HistoryInv, OwnerInv
  <2>2. n = Owner
    BY DEF PublishLookup, OnePublisher
  <2>3. PICK curr \in LookupLatestPointer(n) : curr # <<>> => GreaterThan(v, Last(curr).version)
    BY DEF PublishLookup
  <2>4. curr = P
    BY <2>1, <2>2, <2>3, OwnerAcceptsNothing DEF LookupLatestPointer
  <2>5. h \in Seq(Rel) /\ P \in Seq(Rel) /\ Extends(h, <<>>)
    BY <2>1 DEF HistoryInv, HistoryTypes, CompleteHistories
  <2>6. ByOwner(h)
    <3>1. Signed(Last(h))
      <4>1. <<>> \in Seq(Rel)
        OBVIOUS
      <4> QED BY <2>5, <4>1, ExtendsIs
    <3> QED BY <3>1 DEF ByOwner, Signed, OnePublisher
  <2>7. IsPrefix(h, P)
    BY <2>1, <2>6 DEF OwnerInv
  <2>8. Len(h) \in 1..Len(P) /\ Last(h) = P[Len(h)]
    <3>1. Len(h) \in Nat /\ Len(h) # 0 /\ Len(P) \in Nat
      BY <2>5
    <3>2. Len(h) <= Len(P) /\ \A i \in 1..Len(h) : h[i] = P[i]
      BY <2>5, <2>7, PrefixIs
    <3> QED BY <3>1, <3>2 DEF Last
  <2>9. P # <<>> /\ Last(P) = P[Len(P)] /\ GreaterThan(v, P[Len(P)].version)
    BY <2>3, <2>4, <2>8 DEF Last
  <2>10. CASE Len(h) = Len(P)
    BY <2>8, <2>9, <2>10
  <2>11. CASE Len(h) # Len(P)
    <3>1. Len(P) \in 1..Len(P) /\ Len(h) \in 1..(Len(P) - 1)
      BY <2>5, <2>8, <2>11
    <3>2. GreaterThan(P[Len(P)].version, P[Len(h)].version)
      BY <2>1, <3>1, CompleteIncreasing
    <3>3. v \in Version /\ P[Len(P)].version \in Version /\ P[Len(h)].version \in Version
      <4>1. P[Len(P)] \in Rel /\ P[Len(h)] \in Rel
        BY <2>5, <2>8, <3>1
      <4>2. \A r \in Rel : r.version \in Version
        BY VersionsAre DEF Rel
      <4> QED BY <4>1, <4>2, VersionsAre
    <3> QED BY <2>8, <2>9, <3>2, <3>3, GreaterThanTransitive
  <2> QED BY <2>10, <2>11
<1>2. PublisherInv /\ [Next]_vars => [Checked]_vars
  BY <1>1
<1> QED BY <1>2, PublisherInvariant, PTL DEF Spec

=============================================================================
