------------------------------ MODULE MCFeeds ------------------------------
(* The phases of a tick past the watches: the founder wallet, the trending  *)
(* cache, the dataset, the indices a refreshed token is scored with, its    *)
(* history as it comes together and the detector of linked wallets.         *)
(* They meet in no state of theirs: a behaviour is one of them, chosen at   *)
(* the start, and the run is as large as their sum.                         *)
(* m1 is in the wallet when tracking begins, m2 comes later.                *)
EXTENDS FounderTick, TrendingFeed, PerfDataset, WarIndices, History, Coordination

CONSTANTS m1, m2, r1, r2, t1

MCTrending == <<"a", "b", "c", "d">>

\* Thirds of a dollar: one of each pair is rounded down, the other up.
MCRows == {[profit |-> 4, cost |-> 8, roi |-> 0], [profit |-> 11, cost |-> 4, roi |-> 2]}

\* A metric at its best, and then at the values that move its index.
MCNews ==
    [liquidity |-> <<30, 10, 0>>, marketCap |-> <<100, 300>>, top10 |-> <<10, 45, 100>>,
     dev |-> <<0, 20>>, topSnipers |-> <<0, 40>>, bundlers |-> <<0, 35>>,
     bots |-> <<10, 70>>, rats |-> <<0, 33>>, rug |-> <<5, 40, 51>>, change |-> <<60, 20, 1, -20, -31>>, wash |-> <<FALSE, TRUE>>,
     snipers |-> <<0, 7>>, smart |-> <<5, 0>>, renowned |-> <<3, 0>>,
     buys |-> <<7, 0>>, sells |-> <<0, 5>>, honeypot |-> <<FALSE, TRUE>>,
     renounced |-> <<TRUE, FALSE>>, openSource |-> <<TRUE, FALSE>>,
     renouncedMint |-> <<TRUE, FALSE>>, renouncedFreeze |-> <<TRUE, FALSE>>,
     lock |-> <<60, 20>>, burn |-> <<90, 0>>, tax |-> <<0, 12>>]

MCProfiles ==
    {{"liquidity", "marketCap", "top10", "dev", "topSnipers", "bundlers", "snipers", "bots"},
     {"honeypot", "renounced", "openSource", "renouncedMint", "renouncedFreeze", "lock",
      "burn", "tax"},
     {"smart", "renowned", "buys", "sells", "wash", "rats", "change"},
     {"honeypot", "tax", "renouncedMint"}, {"rug", "top10", "change", "buys", "sells", "wash"}, {}}

\* Every lane has two observations of one instant that differ; the last has a
\* coverage its lane must not have.
Seen(lane, coverage, at, key, rest) ==
    [lane |-> lane, coverage |-> coverage, at |-> at, key |-> key, rest |-> rest,
     price |-> IF lane = "market" THEN 95 + 5 * key ELSE 0]

MCSightings ==
    {Seen("market", "COMPLETE", at, 2, 0) : at \in 1 .. 3}
        \cup {Seen("market", "COMPLETE", 2, 0, 0)}
        \cup {Seen("analytics", "SAMPLED", 2, 0, rest) : rest \in {0, 1}}
        \cup {Seen("flow", "ROLLING", 1, key, 0) : key \in {0, 1}}
        \cup {Seen("flow", "COMPLETE", 2, 0, 0)}

MCDecisions == {[at |-> 1, up |-> TRUE, reference |-> 100], [at |-> 1, up |-> FALSE, reference |-> 100],
                [at |-> 2, up |-> TRUE, reference |-> 100], [at |-> 2, up |-> TRUE, reference |-> 0]}

MCEntries ==
    {[wallet |-> 1, real |-> TRUE, entryTime |-> 0, share |-> 1],
     [wallet |-> 2, real |-> TRUE, entryTime |-> NotKnown, share |-> 1],
     [wallet |-> 3, real |-> TRUE, entryTime |-> 2, share |-> NotKnown],
     [wallet |-> 1, real |-> FALSE, entryTime |-> 0, share |-> 1]}

Funded(wallet, funder, at) ==
    [wallet |-> wallet, funder |-> funder, infra |-> funder = 3, fundingTime |-> at]

MCRecords ==
    {Funded(1, 1, 0), Funded(1, 1, 2), Funded(1, NotKnown, NotKnown),
     Funded(2, 1, 0), Funded(2, 2, NotKnown),
     Funded(3, 2, 0), Funded(3, 3, 0), Funded(3, NotKnown, NotKnown)}

\* Cycles and requests have the same two names.
Symmetry == Permutations(Slots)

VARIABLE side

Init ==
    /\ FounderInit
    /\ FeedInit
    /\ DatasetInit
    /\ IndicesInit
    /\ HistoryInit
    /\ CoordinationInit
    /\ side \in {"founder", "cache", "dataset", "indices", "history", "coordination"}
    /\ side # "founder" => ~direct
    /\ side # "dataset" => interval = 1
    /\ side # "indices" => row.holders = 0 /\ \A m \in Metrics : row[m] = Unknown

Founder(A) ==
    /\ side = "founder" /\ A
    /\ UNCHANGED <<side, feedVars, datasetVars, indexVars, historyVars, coordinationVars>>

Cache(A) ==
    /\ side = "cache" /\ A
    /\ UNCHANGED <<side, founderVars, datasetVars, indexVars, historyVars, coordinationVars>>

Dataset(A) ==
    /\ side = "dataset" /\ A
    /\ UNCHANGED <<side, founderVars, feedVars, indexVars, historyVars, coordinationVars>>

Indices(A) ==
    /\ side = "indices" /\ A
    /\ UNCHANGED <<side, founderVars, feedVars, datasetVars, historyVars, coordinationVars>>

Told(A) ==
    /\ side = "history" /\ A
    /\ UNCHANGED <<side, founderVars, feedVars, datasetVars, indexVars, coordinationVars>>

Linked(A) ==
    /\ side = "coordination" /\ A
    /\ UNCHANGED <<side, founderVars, feedVars, datasetVars, indexVars, historyVars>>

Next ==
    \/ Founder(FounderNext)
    \/ Cache(FeedNext)
    \/ Dataset(DatasetNext)
    \/ Indices(IndicesNext)
    \/ Told(HistoryNext)
    \/ Linked(CoordinationNext)

Spec ==
    Init /\ [][Next]_<<founderVars, feedVars, datasetVars, indexVars, historyVars,
                       coordinationVars, side>>
=============================================================================
