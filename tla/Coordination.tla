---------------------------- MODULE Coordination ----------------------------
(***************************************************************************)
(* The detector of linked wallets: the early wallets of a token are        *)
(* grouped by who funded them first, the largest group is reported with    *)
(* how close in time its fundings and its entries are.  Entries and        *)
(* funding records come in one after the other.                            *)
(***************************************************************************)
EXTENDS Integers, SequencesExt

CONSTANTS
    Entries,      \* what may be seen: [wallet, real, entryTime, share]
    Records,      \* what a lookup may answer: [wallet, funder, infra, fundingTime]
    NotKnown,     \* null: an unresolved funder, a time that is not known
    MinCluster, FundingTight, EntryTight,  \* DEFAULT_THRESHOLDS
    Large,        \* the size that is evidence by itself
    MaxEntries    \* bound

\* Funders are numbered in the order of their addresses.  real: not simulated,
\* and of this token.  infra: the type is one of INFRA_FUNDER_TYPES.
ASSUME CoordinationAssumption ==
    /\ {MinCluster, Large} \subseteq Nat \ {0}
    /\ NotKnown \notin Int
    /\ \A f \in Records : f.infra \in BOOLEAN /\ f.funder \in Nat \union {NotKnown}
    /\ \A e \in Entries : e.real \in BOOLEAN

VARIABLES
    observed,   \* the wallet observations, in their order
    funding     \* fundingByWallet: the last record of a wallet

coordinationVars == <<observed, funding>>

CoordinationInit == observed = <<>> /\ funding = <<>>

---------------------------------------------------------------------------

FunderOf(o, known) ==
    IF o.wallet \in DOMAIN known THEN known[o.wallet].funder ELSE NotKnown

\* Wallets are told by their places in what was seen. Neither a simulated one
\* nor one of another token counts.
Real(seen) == {i \in DOMAIN seen : seen[i].real}

\* An unknown type is no reason to leave a funder out.
Eligible(seen, known) ==
    {i \in Real(seen) : FunderOf(seen[i], known) # NotKnown /\ ~known[seen[i].wallet].infra}

GroupOf(seen, known, f) ==
    [funder |-> f, members |-> {i \in Eligible(seen, known) : FunderOf(seen[i], known) = f}]

\* Mutant: only the addresses are compared.
BeatsByAddress(a, b) == a.funder < b.funder

Beats(a, b) ==
    \/ Cardinality(a.members) > Cardinality(b.members)
    \/ Cardinality(a.members) = Cardinality(b.members) /\ a.funder < b.funder

\* The largest of the groups that are large enough, as a set of at most one.
Best(seen, known) ==
    LET funders  == {FunderOf(seen[i], known) : i \in Eligible(seen, known)}
        groups   == {GroupOf(seen, known, f) : f \in funders}
        clusters == {g \in groups : Cardinality(g.members) >= MinCluster}
    IN  {g \in clusters : \A h \in clusters \ {g} : Beats(g, h)}

\* windowSec, and null as soon as one of the times is.
WindowOf(times) ==
    IF NotKnown \in times THEN NotKnown ELSE Max(times) - Min(times)

IsTight(window, limit) == window # NotKnown /\ window <= limit

LinkStrength(fundingTight, entryTight, size) ==
    IF fundingTight /\ entryTight /\ size >= Large THEN "HIGH"
    ELSE IF fundingTight \/ entryTight THEN "MEDIUM" ELSE "LOW"

NoCluster(seen, known) ==
    [cluster      |-> {},
     anchor       |-> NotKnown,
     status       |-> IF \E i \in Real(seen) : FunderOf(seen[i], known) = NotKnown
                      THEN "INSUFFICIENT" ELSE "NONE",
     evidence     |-> {},
     linkStrength |-> "NONE"]

SupplyOf(seen, members) ==
    IF \E i \in members : seen[i].share = NotKnown THEN NotKnown
    ELSE MapThenSumSet(LAMBDA i : seen[i].share, members)

Describe(group, seen, known) ==
    LET members      == group.members
        size         == Cardinality(members)
        entryWindow  == WindowOf({seen[i].entryTime : i \in members})
        fundingTight == IsTight(WindowOf({known[seen[i].wallet].fundingTime : i \in members}), FundingTight)
        entryTight   == IsTight(entryWindow, EntryTight)
    IN  [cluster        |-> members,
         anchor         |-> group.funder,
         status         |-> IF entryWindow # NotKnown THEN "OBSERVED" ELSE "CANDIDATE",
         supplyInvolved |-> SupplyOf(seen, members),
         evidence       |-> {"COMMON_FUNDER"}
                            \union {e \in {"FUNDING_PROXIMITY"} : fundingTight}
                            \union {e \in {"ENTRY_PROXIMITY"} : entryTight}
                            \union {e \in {"CLUSTER_SIZE"} : size >= Large},
         linkStrength   |-> LinkStrength(fundingTight, entryTight, size)]

Detect(seen, known) ==
    LET best == Best(seen, known)
    IN  IF best = {} THEN NoCluster(seen, known)
        ELSE Describe(CHOOSE g \in best : TRUE, seen, known)

---------------------------------------------------------------------------

See(entry) ==
    /\ Len(observed) < MaxEntries
    /\ observed' = Append(observed, entry)
    /\ UNCHANGED funding

Resolve(record) ==
    /\ funding' = [wallet \in DOMAIN funding \cup {record.wallet} |->
                       IF wallet = record.wallet THEN record ELSE funding[wallet]]
    /\ UNCHANGED observed

CoordinationNext == (\E entry \in Entries : See(entry)) \/ (\E record \in Records : Resolve(record))

CoordinationSpec == CoordinationInit /\ [][CoordinationNext]_coordinationVars

---------------------------------------------------------------------------
(* Properties *)

\* What the detector knows less about it never denies: one more wallet, or a
\* funder found where none was known, loses no cluster, makes none smaller and
\* never moves the anchor to one that is not ahead; and as long as the entry of
\* a member is unknown the cluster is a CANDIDATE, never OBSERVED and never NONE.
MoreNeverUnlinks ==
    [][(\A wallet \in DOMAIN funding :
            funding[wallet].funder # NotKnown => funding'[wallet] = funding[wallet])
        => LET was == Detect(observed, funding)
               is  == Detect(observed', funding')
           IN  /\ Cardinality(is.cluster) >= Cardinality(was.cluster)
               /\ is.anchor # was.anchor /\ was.anchor # NotKnown =>
                      \/ Cardinality(is.cluster) > Cardinality(was.cluster)
                      \/ is.anchor < was.anchor
               /\ (\E i \in is.cluster : observed'[i].entryTime = NotKnown)
                      => is.status = "CANDIDATE"]_coordinationVars
=============================================================================
