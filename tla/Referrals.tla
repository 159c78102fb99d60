------------------------------ MODULE Referrals ------------------------------
(***************************************************************************)
(* GET /referral, POST /referral/claim and POST /referral/rewards with     *)
(* PgReferralStore.  Rewarding claims a milestone in one query and issues  *)
(* its entitlement in another.                                             *)
(***************************************************************************)
EXTENDS Naturals, FiniteSets, FiniteSetsExt

CONSTANTS
    People,
    NoOne,
    Rewarders,         \* reward requests running at once
    InvitesPerReward   \* DEFAULT_REFERRAL_POLICY

ASSUME ReferralAssumption ==
    /\ IsFiniteSet(People) /\ NoOne \notin People
    /\ InvitesPerReward \in Nat \ {0}

VARIABLES
    codes,     \* referral_codes: who has a code
    inviter,   \* referrals: whose code each user claimed
    granted,   \* referral_rewards: milestones claimed, by user
    rewards,   \* entitlement rows issued for a milestone, by user
    rewarder,  \* the running requests
    lost       \* milestones claimed whose entitlement was not issued

referralVars == <<codes, inviter, granted, rewards, rewarder, lost>>

Milestones == {k \in 1..Cardinality(People) : k % InvitesPerReward = 0}

NoRequest == [at |-> "resting"]

ReferralInit ==
    /\ codes = {}
    /\ inviter = [u \in People |-> NoOne]
    /\ granted = [u \in People |-> {}]
    /\ rewards = [u \in People |-> [m \in Milestones |-> 0]]
    /\ rewarder = [r \in Rewarders |-> NoRequest]
    /\ lost = {}

Invited(u) == Cardinality({i \in People : inviter[i] = u})

Earned(n) == {m \in Milestones : m <= n}

GetCode(u) ==
    /\ codes' = codes \cup {u}
    /\ UNCHANGED <<inviter, granted, rewards, rewarder, lost>>

\* A known code of somebody else, and the first for this invitee.
Attributable(owner, invitee) ==
    owner \in codes /\ owner # invitee /\ inviter[invitee] = NoOne

RecordInvite(owner, invitee) ==
    /\ Attributable(owner, invitee)
    /\ inviter' = [inviter EXCEPT ![invitee] = owner]
    /\ UNCHANGED <<codes, granted, rewards, rewarder, lost>>

---------------------------------------------------------------------------
(* One reward request: the milestones earned, less those claimed, in order. *)

AskRewards(r, u) ==
    /\ rewarder[r] = NoRequest
    /\ rewarder' = [rewarder EXCEPT ![r] = [at |-> "read", user |-> u, todo |-> Earned(Invited(u))]]
    /\ UNCHANGED <<codes, inviter, granted, rewards, lost>>

Proceed(r, left) ==
    rewarder' = [rewarder EXCEPT ![r] =
                    IF left = {} THEN NoRequest
                    ELSE [at |-> "mark", user |-> rewarder[r].user, todo |-> left]]

ReadGranted(r) ==
    LET q == rewarder[r]
    IN  /\ q.at = "read"
        /\ Proceed(r, q.todo \ granted[q.user])
        /\ UNCHANGED <<codes, inviter, granted, rewards, lost>>

\* Mutant: what was read before is taken as won.
WonAlways(u, m) == u \in People /\ m \in Milestones /\ granted[u] \subseteq Milestones

\* INSERT ... ON CONFLICT DO NOTHING: one request wins the milestone.
Won(u, m) == m \notin granted[u]

MarkGranted(r) ==
    LET q == rewarder[r]
        m == Min(q.todo)
    IN  /\ q.at = "mark"
        /\ IF Won(q.user, m)
           THEN /\ granted' = [granted EXCEPT ![q.user] = @ \cup {m}]
                /\ rewarder' = [rewarder EXCEPT ![r].at = "issue"]
           ELSE /\ Proceed(r, q.todo \ {m})
                /\ UNCHANGED granted
        /\ UNCHANGED <<codes, inviter, rewards, lost>>

IssueReward(r) ==
    LET q == rewarder[r]
        m == Min(q.todo)
    IN  /\ q.at = "issue"
        /\ rewards' = [rewards EXCEPT ![q.user][m] = @ + 1]
        /\ Proceed(r, q.todo \ {m})
        /\ UNCHANGED <<codes, inviter, granted, lost>>

Unissued(r) ==
    IF rewarder[r].at = "issue" THEN {<<rewarder[r].user, Min(rewarder[r].todo)>>} ELSE {}

\* A query throws, or the process ends: the milestone stays claimed.
RewarderEnds(ended) ==
    /\ \E r \in ended : rewarder[r] # NoRequest
    /\ lost' = lost \cup UNION {Unissued(r) : r \in ended}
    /\ rewarder' = [r \in Rewarders |-> IF r \in ended THEN NoRequest ELSE rewarder[r]]
    /\ UNCHANGED <<codes, inviter, granted, rewards>>

ReferralNext ==
    \/ \E u \in People : GetCode(u)
    \/ \E owner, invitee \in People : RecordInvite(owner, invitee)
    \/ \E r \in Rewarders, u \in People : AskRewards(r, u)
    \/ \E r \in Rewarders : ReadGranted(r) \/ MarkGranted(r) \/ IssueReward(r)
    \/ \E r \in Rewarders : RewarderEnds({r})
    \/ RewarderEnds(Rewarders)

ReferralSpec == ReferralInit /\ [][ReferralNext]_referralVars

---------------------------------------------------------------------------
(* Properties *)

\* A milestone is rewarded at most once, and only one that was earned, however
\* many requests run; and a claimed one that has no reward is being issued or
\* was lost to an exception or a crash between the two queries.
HonestlyRewarded(u, m) ==
    /\ rewards[u][m] <= 1
    /\ rewards[u][m] = 1 => m \in granted[u]
    /\ m \in granted[u] =>
         /\ m <= Invited(u)
         /\ \/ rewards[u][m] = 1
            \/ <<u, m>> \in lost
            \/ \E r \in Rewarders : <<u, m>> \in Unissued(r)

RewardsHonest == \A u \in People, m \in Milestones : HonestlyRewarded(u, m)
=============================================================================
