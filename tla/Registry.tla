------------------------------ MODULE Registry ------------------------------
(***************************************************************************)
(* The package registry on several nodes: the command publish              *)
(* (cmd/node/cli.go), the stores over the network and the replication      *)
(* (kademlia/kademlia.go), for one package.                                *)
(*                                                                         *)
(* A version record names its predecessor by the hash of its bytes, so a   *)
(* record determines its whole history.  A record is that history here: a  *)
(* non-empty sequence of releases, oldest first, and its predecessor is    *)
(* the sequence without its last release.  The empty sequence is ZeroHash, *)
(* and no latest pointer.  A latest pointer has the version of the record  *)
(* at its head and is signed with the same key, so it is a record too.     *)
(* A version that cannot be parsed, which --force lets pass, is left out.  *)
(* A node that has the domain owner's key signs with it, any other with a  *)
(* key of its own.  The blob of a release is stored and fetched as its     *)
(* record is, and left out.                                                *)
(*                                                                         *)
(* There are at most k nodes, so each is one of the k closest to every     *)
(* key.  The races inside one node's store are the subject of DataStore.   *)
(* A record is the same wherever it comes from, so its STORE messages, of  *)
(* a publication or of a replication, and the lookups that find it are one *)
(* action: a node gets a record that another node has.                     *)
(***************************************************************************)
EXTENDS SemanticVersion, SequencesExt

CONSTANTS
    Nodes,
    Owner,          \* the node that publishes where there is only one
    Roles,          \* what the nodes may do in a behaviour: see Role
    VersionArgs,    \* the versions as the commands are given them
    MaxHistory,     \* bound: the length of a history
    MaxForced       \* bound: the number of forced publications

\* The nodes that hold the domain owner's private key, those that use
\* publish --force, those that may stop and start again, and those that use
\* forget.
Role == [keyHolders : SUBSET Nodes, forcers : SUBSET Nodes, restarters : SUBSET Nodes,
         forgetters : SUBSET Nodes]

ASSUME RegistryAssumption ==
    /\ Roles \subseteq Role
    /\ \A rl \in Roles : Owner \in rl.keyHolders
    /\ \A arg \in VersionArgs : arg \in Seq(Nat) /\ Len(arg) \in 1..3
    /\ MaxHistory \in Nat \ {0}
    /\ MaxForced \in Nat

VARIABLES
    roles,          \* those of this behaviour
    pointer,        \* the latest pointer in each node's store, or <<>>
    held,           \* the records in each node's store
    pub,            \* the publish command each node is running
    stores,         \* the latest pointers in STORE messages on their way
    forgotten,      \* history: the records each deleted and did not store again
    tainted,        \* history: the node's pointer rests on a forced one
    forced          \* the number of forced publications so far

vars == <<roles, pointer, held, pub, stores, forgotten, tainted, forced>>

KeyHolders == roles.keyHolders

Forcers == roles.forcers

Restarters == roles.restarters

Forgetters == roles.forgetters

Versions == {ParseVersion(arg) : arg \in VersionArgs}

\* A release and the node that published it.
Releases == [version : Versions, author : KeyHolders \cup Forcers]

\* The signature of the record, and of the pointer to it, is the owner's.
Signed(release) == release.author \in KeyHolders

Histories == SeqOf(Releases, MaxHistory)

Records == Histories \ {<<>>}

\* The record with its predecessors.
Chain(rec) == {SubSeq(rec, 1, i) : i \in 1..Len(rec)}

NoPub == [pc |-> "idle", rec |-> <<>>, force |-> FALSE]

Init ==
    /\ roles \in Roles
    /\ pointer = [n \in Nodes |-> <<>>]
    /\ held = [n \in Nodes |-> {}]
    /\ pub = [n \in Nodes |-> NoPub]
    /\ stores = {}
    /\ forgotten = [n \in Nodes |-> {}]
    /\ tainted = [n \in Nodes |-> FALSE]
    /\ forced = 0

-----------------------------------------------------------------------------
(* DataStore.Store of a latest pointer.                                    *)

\* Mutant: signatures are not verified.
ExtendsUnsigned(new, old) ==
    /\ IsStrictPrefix(old, new)
    /\ \A i \in Len(old) + 1..Len(new) : i > 1 => GreaterThan(new[i].version, new[i - 1].version)

\* The history new goes back to old with releases that are all signed and
\* of ever greater versions.
Extends(new, old) ==
    /\ IsStrictPrefix(old, new)
    /\ \A i \in Len(old) + 1..Len(new) :
         /\ Signed(new[i])
         /\ i > 1 => GreaterThan(new[i].version, new[i - 1].version)

\* Mutant: the records of the history need not be in the store.
AcceptsWithoutHistory(n, lp) == Extends(lp, pointer[n])

\* The records that n has missed are in its store: those it had to fetch,
\* FetchRecord has put there.
Accepts(n, lp) ==
    /\ Extends(lp, pointer[n])
    /\ Chain(lp) \ Chain(pointer[n]) \subseteq held[n]

Keep(n, r) ==
    /\ held' = [held EXCEPT ![n] = @ \cup {r}]
    /\ forgotten' = [forgotten EXCEPT ![n] = @ \ {r}]

FetchRecord(n, r) ==
    /\ r \notin held[n]
    /\ \E m \in Nodes \ {n} : r \in held[m]
    /\ Keep(n, r)
    /\ UNCHANGED <<roles, pointer, pub, stores, tainted, forced>>

-----------------------------------------------------------------------------
(* The command publish.                                                    *)

(***************************************************************************)
(* What LookupLatestPointer may find: the pointer in the own store if      *)
(* there is one; or one that another node has and that is valid; or        *)
(* nothing, when no node that has one answers.                             *)
(***************************************************************************)
LookupLatestPointer(n) ==
    IF pointer[n] # <<>>
    THEN {pointer[n]}
    ELSE {<<>>} \cup {lp \in {pointer[m] : m \in Nodes \ {n}} : lp # <<>> /\ Accepts(n, lp)}

(***************************************************************************)
(* Up to the choice of the previous record.  Without --force the node has  *)
(* the owner's key, the version is greater than the one found and the      *)
(* previous record is the one found, whatever --prev says.  With --force,  *)
(* --prev may name any hash, and a node without the key signs with one     *)
(* that it makes up.                                                       *)
(***************************************************************************)
PublishLookup(n, v, force) ==
    /\ pub[n].pc = "idle"
    /\ IF force THEN n \in Forcers /\ forced < MaxForced ELSE n \in KeyHolders
    /\ forced' = IF force THEN forced + 1 ELSE forced
    /\ \E curr \in LookupLatestPointer(n) : \E prev \in IF force THEN Histories ELSE {curr} :
         /\ ~force /\ curr # <<>> => GreaterThan(v, Last(curr).version)
         /\ Len(prev) < MaxHistory
         /\ pub' = [pub EXCEPT ![n] =
              [pc |-> "record", force |-> force,
               rec |-> Append(prev, [version |-> v, author |-> n])]]
    /\ UNCHANGED <<roles, pointer, held, stores, forgotten, tainted>>

\* Mutant: the record is stored under the hash of its predecessor.
PublishRecordPrev(n) ==
    /\ pub[n].pc = "record"
    /\ Keep(n, Front(pub[n].rec))
    /\ pub' = [pub EXCEPT ![n].pc = "pointer"]
    /\ UNCHANGED <<roles, pointer, stores, tainted, forced>>

PublishRecord(n) ==
    /\ pub[n].pc = "record"
    /\ Keep(n, pub[n].rec)
    /\ pub' = [pub EXCEPT ![n].pc = "pointer"]
    /\ UNCHANGED <<roles, pointer, stores, tainted, forced>>

\* StoreLatestPointer, or StoreLatestPointerForce: the local store, and if
\* it does not fail STORE messages to the other nodes.
PublishPointer(n) ==
    /\ pub[n].pc = "pointer"
    /\ pub[n].force \/ Accepts(n, pub[n].rec)
    /\ pointer' = [pointer EXCEPT ![n] = pub[n].rec]
    /\ tainted' = [tainted EXCEPT ![n] = @ \/ pub[n].force]
    /\ stores' = stores \cup {pub[n].rec}
    /\ pub' = [pub EXCEPT ![n] = NoPub]
    /\ UNCHANGED <<roles, held, forgotten, forced>>

\* The store rejects the pointer: it has changed since the lookup, or a
\* record of its history was not found.  The record stays where it is.
PublishFails(n) ==
    /\ pub[n].pc = "pointer"
    /\ ~pub[n].force
    /\ ~Accepts(n, pub[n].rec)
    /\ pub' = [pub EXCEPT ![n] = NoPub]
    /\ UNCHANGED <<roles, pointer, held, stores, forgotten, tainted, forced>>

-----------------------------------------------------------------------------
(* The command install.  What it fetches is cached by FetchRecord.         *)

\* Mutant: the signatures of the pointer and of the records are not verified.
InstallsUnverified(n, v) ==
    UNION {{rec \in Chain(lp) :
              /\ Last(rec).version = v
              /\ \A i \in Len(rec)..Len(lp) : \E m \in Nodes : SubSeq(lp, 1, i) \in held[m]} :
           lp \in LookupLatestPointer(n) \ {<<>>}}

(***************************************************************************)
(* The records that install may take for version v.  The pointer found is  *)
(* signed by the owner; from its head back to the first record of the      *)
(* version, every record is found and signed by the owner.  The version    *)
(* latest is that of the head.                                             *)
(***************************************************************************)
Installs(n, v) ==
    UNION {{rec \in Chain(lp) :
              /\ Last(rec).version = v
              /\ \A i \in Len(rec)..Len(lp) :
                   /\ \E m \in Nodes : SubSeq(lp, 1, i) \in held[m]
                   /\ Signed(lp[i])
                   /\ lp[i].version = v => i = Len(rec)} :
           lp \in {l \in LookupLatestPointer(n) : l # <<>> /\ Signed(Last(l))}}

-----------------------------------------------------------------------------
(* Replication, delivery, restarts and forget.                             *)

\* Mutant: only the values stored under their hash are replicated.
ReplicateNoPointer(n) ==
    /\ pointer[n] # <<>>
    /\ UNCHANGED vars

ReplicatePointer(n) ==
    /\ pointer[n] # <<>>
    /\ stores' = stores \cup {pointer[n]}
    /\ UNCHANGED <<roles, pointer, held, pub, forgotten, tainted, forced>>

\* A STORE that the node rejects changes nothing; one that it accepts may
\* come again.
DeliverPointer(n, lp) ==
    /\ Accepts(n, lp)
    /\ pointer' = [pointer EXCEPT ![n] = lp]
    /\ UNCHANGED <<roles, held, pub, stores, forgotten, tainted, forced>>

Lose(lp) ==
    /\ stores' = stores \ {lp}
    /\ UNCHANGED <<roles, pointer, held, pub, forgotten, tainted, forced>>

\* The store is in memory only.
Restart(n) ==
    /\ pointer' = [pointer EXCEPT ![n] = <<>>]
    /\ held' = [held EXCEPT ![n] = {}]
    /\ forgotten' = [forgotten EXCEPT ![n] = {}]
    /\ pub' = [pub EXCEPT ![n] = NoPub]
    /\ tainted' = [tainted EXCEPT ![n] = FALSE]
    /\ UNCHANGED <<roles, stores, forced>>

\* The command forget, of the pointer's key or of a record's hash.
ForgetPointer(n) ==
    /\ pointer[n] # <<>>
    /\ pointer' = [pointer EXCEPT ![n] = <<>>]
    /\ tainted' = [tainted EXCEPT ![n] = FALSE]
    /\ UNCHANGED <<roles, held, pub, stores, forgotten, forced>>

ForgetRecord(n, r) ==
    /\ held' = [held EXCEPT ![n] = @ \ {r}]
    /\ forgotten' = [forgotten EXCEPT ![n] = @ \cup {r}]
    /\ UNCHANGED <<roles, pointer, pub, stores, tainted, forced>>

Next ==
    \/ \E n \in Nodes, arg \in VersionArgs, force \in BOOLEAN :
          PublishLookup(n, ParseVersion(arg), force)
    \/ \E n \in Nodes : PublishRecord(n) \/ PublishPointer(n) \/ PublishFails(n)
    \/ \E n \in Nodes : ReplicatePointer(n)
    \/ \E n \in Nodes : \E m \in Nodes : \E r \in held[m] : FetchRecord(n, r)
    \/ \E n \in Nodes, lp \in stores : DeliverPointer(n, lp)
    \/ \E lp \in stores : Lose(lp)
    \/ \E n \in Restarters : Restart(n)
    \/ \E n \in Forgetters : ForgetPointer(n) \/ \E r \in held[n] : ForgetRecord(n, r)

Spec == Init /\ [][Next]_vars

(***************************************************************************)
(* The publish command runs on; the replication worker comes round for     *)
(* ever; a lookup of a record that some node holds, and a STORE, that are  *)
(* tried again and again succeed at last.                                  *)
(***************************************************************************)
FairSpec ==
    /\ Spec
    /\ \A n \in Nodes :
         /\ WF_vars(PublishRecord(n) \/ PublishPointer(n) \/ PublishFails(n))
         /\ WF_vars(ReplicatePointer(n))
         /\ SF_vars(\E m \in Nodes : \E r \in held[m] : FetchRecord(n, r))
         /\ SF_vars(\E lp \in stores : DeliverPointer(n, lp))

-----------------------------------------------------------------------------
(* Properties *)

\* The state has its type; in particular publish never stores or sends a
\* record without a release, which would be taken for ZeroHash.
TypeOK ==
    /\ pointer \in [Nodes -> Histories]
    /\ held \in [Nodes -> SUBSET Records]
    /\ pub \in [Nodes -> {NoPub} \cup [pc : {"record", "pointer"}, rec : Records, force : BOOLEAN]]
    /\ stores \subseteq Records
    /\ forgotten \in [Nodes -> SUBSET Records]
    /\ tainted \in [Nodes -> BOOLEAN]
    /\ forced \in 0..MaxForced

\* The instances that the next two properties are about.
OnePublisher ==
    /\ KeyHolders = {Owner}
    /\ KeyHolders \cap (Forcers \cup Restarters \cup Forgetters) = {}

Abstract == INSTANCE PackageHistory WITH
    published <- IF OnePublisher THEN pointer[Owner] ELSE <<>>,
    view <- [n \in Nodes |-> IF OnePublisher /\ ~tainted[n] THEN pointer[n] ELSE <<>>]

(***************************************************************************)
(* When one node holds the owner's key, keeps running and neither forgets  *)
(* nor forces a publication, the registry implements PackageHistory: no    *)
(* other node ever has a history of its own or goes back in it, though     *)
(* STORE messages come late and again, replicas are stale, nodes restart   *)
(* or forget, and others publish forged releases by force.  The view of a  *)
(* node that did that itself counts as lost.                               *)
(***************************************************************************)
ImplementsPackageHistory == Abstract!Spec

(***************************************************************************)
(* Whatever install takes, on any node and at any time, even on one that   *)
(* forced a publication or restarted, is a release of the publisher's      *)
(* history.  As that only grows, and in increasing versions, two nodes     *)
(* that install a version install the same release.                        *)
(***************************************************************************)
InstallAgreement ==
    OnePublisher => \A n \in Nodes, v \in Versions : Installs(n, v) \subseteq Chain(pointer[Owner])

(***************************************************************************)
(* The history of a pointer that was accepted is complete in the node's    *)
(* store, but for records deleted by hand, signed by the owner, and its    *)
(* versions increase: a node that missed some versions, or forgot its      *)
(* pointer or records of it, has caught up before it accepts a newer one.  *)
(***************************************************************************)
CompleteHistories ==
    \A n \in Nodes : ~tainted[n] =>
        /\ Chain(pointer[n]) \subseteq held[n] \cup forgotten[n]
        /\ Extends(pointer[n], <<>>) \/ pointer[n] = <<>>

\* A step of neither a publication nor a restart nor a forget.
Quiet ==
    /\ pub' = pub
    /\ \A n \in Nodes : held[n] \subseteq held'[n] /\ (pointer'[n] = <<>> => pointer[n] = <<>>)

(***************************************************************************)
(* Replication: once publications, restarts and forgets are over, every    *)
(* node comes to have the publisher's latest pointer, but for those that   *)
(* forced one of their own.                                                *)
(***************************************************************************)
ReplicasConverge ==
    <>[][Quiet]_vars =>
        <>[](OnePublisher => \A n \in Nodes : ~tainted[n] => pointer[n] = pointer[Owner])

(***************************************************************************)
(* The assignment's rule for publish without --force: the new version is   *)
(* checked against the previous ones before anything is uploaded.  So the  *)
(* command goes on to its uploads only with a version that is greater than *)
(* that of every pointer that a node has accepted.                         *)
(***************************************************************************)
CheckedBeforeUpload ==
    [][\A n \in Nodes, v \in Versions :
         PublishLookup(n, v, FALSE) =>
             \A m \in Nodes : ~tainted[m] /\ pointer[m] # <<>> =>
                 GreaterThan(v, Last(pointer[m]).version)]_vars

=============================================================================
