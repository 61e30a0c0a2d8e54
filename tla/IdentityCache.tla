---------------------------- MODULE IdentityCache -----------------------------
(***************************************************************************)
(* The cache of agent tokens (internal/store/sqlite/agent.go), which every *)
(* report of an agent goes through: lookups fill it from the database, and *)
(* a new token or the deletion of an agent evicts from it.  The cache is a *)
(* sync.Map without a lock over it and the database; a counter that is     *)
(* raised after each change tells a lookup that what it read may be old.   *)
(***************************************************************************)
EXTENDS Integers

CONSTANTS
  Owners,           \* agents
  Tokens,           \* tokens; one that nothing holds any more stands for a fresh one
  Lookups,          \* lookups at a time (a bound)
  Changers,         \* handlers that change tokens at a time (a bound)
  MaxTokenChanges   \* bound on the changes

ASSUME TokenChangesAssumption == MaxTokenChanges \in Nat

NoOwner == "no owner"
NoCall  == [at |-> "none"]

VARIABLES
  owner,        \* agents: whose token it is, or NoOwner
  cachedOwner,  \* Store.cache
  tokenGen,     \* Store.tokenGen
  tokenChanges, \* changes committed
  lookup,       \* AgentGetByToken calls in progress
  change        \* AgentResetToken and AgentDelete calls that have committed

identityVars == <<owner, cachedOwner, tokenGen, tokenChanges, lookup, change>>

\* An agent has one token.
IdentityInit ==
  /\ owner \in {o \in [Tokens -> Owners \cup {NoOwner}] :
                  \A s, t \in Tokens : o[s] = o[t] /\ s # t => o[s] = NoOwner}
  /\ cachedOwner = [t \in Tokens |-> NoOwner]
  /\ tokenGen = 0 /\ tokenChanges = 0
  /\ lookup = [l \in Lookups |-> NoCall]
  /\ change = [c \in Changers |-> NoCall]

-----------------------------------------------------------------------------
(* AgentGetByToken *)

\* A miss in the cache, and the generation before the query.  A hit changes nothing.
MissIdentity(l, t) ==
  /\ lookup[l] = NoCall /\ cachedOwner[t] = NoOwner
  /\ lookup' = [lookup EXCEPT ![l] = [at |-> "query", token |-> t, gen |-> tokenGen]]
  /\ UNCHANGED <<owner, cachedOwner, tokenGen, tokenChanges, change>>

\* The query: an unknown token is refused.
QueryIdentity(l) ==
  /\ lookup[l].at = "query"
  /\ lookup' = [lookup EXCEPT ![l] =
       IF owner[@.token] = NoOwner THEN NoCall
       ELSE [at |-> "store", token |-> @.token, gen |-> @.gen, found |-> owner[@.token]]]
  /\ UNCHANGED <<owner, cachedOwner, tokenGen, tokenChanges, change>>

StoreIdentity(l) ==
  /\ lookup[l].at = "store"
  /\ cachedOwner' = [cachedOwner EXCEPT ![lookup[l].token] = lookup[l].found]
  /\ lookup' = [lookup EXCEPT ![l] = [at |-> "check", token |-> @.token, gen |-> @.gen]]
  /\ UNCHANGED <<owner, tokenGen, tokenChanges, change>>

\* Mutant of CheckGeneration: what was read is kept.
KeepIdentity(l) ==
  /\ lookup[l].at = "check"
  /\ lookup' = [lookup EXCEPT ![l] = NoCall]
  /\ UNCHANGED <<owner, cachedOwner, tokenGen, tokenChanges, change>>

\* The generation once more: what may be old is not kept.
CheckGeneration(l) ==
  /\ lookup[l].at = "check"
  /\ lookup' = [lookup EXCEPT ![l] = NoCall]
  /\ cachedOwner' = IF tokenGen = lookup[l].gen THEN cachedOwner
                    ELSE [cachedOwner EXCEPT ![lookup[l].token] = NoOwner]
  /\ UNCHANGED <<owner, tokenGen, tokenChanges, change>>

-----------------------------------------------------------------------------
(* Changes *)

\* A token that nothing remembers.
Unknown(t) ==
  /\ owner[t] = NoOwner /\ cachedOwner[t] = NoOwner
  /\ \A l \in Lookups : lookup[l] # NoCall => lookup[l].token # t

Issued(a) == {t \in Tokens : owner[t] = a}

\* The statement of AgentResetToken that gives the agent a fresh token, or that of
\* AgentDelete, which gives it none.
CommitTokens(c, a, news) ==
  /\ change[c] = NoCall
  /\ tokenChanges < MaxTokenChanges
  /\ Issued(a) # {}
  /\ \A t \in news : Unknown(t)
  /\ owner' = [t \in Tokens |-> IF t \in news THEN a
                                ELSE IF t \in Issued(a) THEN NoOwner ELSE owner[t]]
  /\ tokenChanges' = tokenChanges + 1
  /\ change' = [change EXCEPT ![c] = [at |-> "advance", agent |-> a]]
  /\ UNCHANGED <<cachedOwner, tokenGen, lookup>>

\* evictAgentTokens raises the generation ...
AdvanceGeneration(c) ==
  /\ change[c].at = "advance"
  /\ tokenGen' = tokenGen + 1
  /\ change' = [change EXCEPT ![c] = [at |-> "evict", agent |-> @.agent, left |-> Tokens]]
  /\ UNCHANGED <<owner, cachedOwner, tokenChanges, lookup>>

\* ... and then goes through the cache, one entry at a time.
EvictIdentity(c, t) ==
  /\ change[c].at = "evict" /\ t \in change[c].left
  /\ cachedOwner' = IF cachedOwner[t] = change[c].agent
                    THEN [cachedOwner EXCEPT ![t] = NoOwner] ELSE cachedOwner
  /\ change' = [change EXCEPT ![c] =
       IF @.left = {t} THEN NoCall
       ELSE [at |-> "evict", agent |-> @.agent, left |-> @.left \ {t}]]
  /\ UNCHANGED <<owner, tokenGen, tokenChanges, lookup>>

-----------------------------------------------------------------------------

LookupSteps(l) ==
  \/ \E t \in Tokens : MissIdentity(l, t)
  \/ QueryIdentity(l) \/ StoreIdentity(l) \/ CheckGeneration(l)

ChangeSteps(c) ==
  \/ \E a \in Owners, news \in {{}} \cup {{t} : t \in Tokens} : CommitTokens(c, a, news)
  \/ AdvanceGeneration(c)
  \/ \E t \in Tokens : EvictIdentity(c, t)

IdentityNext == \/ \E l \in Lookups : LookupSteps(l)
                \/ \E c \in Changers : ChangeSteps(c)

IdentitySpec == IdentityInit /\ [][IdentityNext]_identityVars

-----------------------------------------------------------------------------
(* Properties *)

IdentityTypeOK ==
  /\ owner \in [Tokens -> Owners \cup {NoOwner}]
  /\ cachedOwner \in [Tokens -> Owners \cup {NoOwner}]
  /\ tokenChanges \in 0..MaxTokenChanges /\ tokenGen \in 0..tokenChanges
  /\ \A l \in Lookups :
       \/ lookup[l] = NoCall
       \/ lookup[l] \in [at : {"query", "check"}, token : Tokens, gen : 0..tokenGen]
       \/ lookup[l] \in [at : {"store"}, token : Tokens, gen : 0..tokenGen, found : Owners]
  /\ \A c \in Changers :
       \/ change[c] = NoCall
       \/ change[c] \in [at : {"advance"}, agent : Owners]
       \/ change[c] \in [at : {"evict"}, agent : Owners, left : SUBSET Tokens \ {{}}]

\* A token stays cached for an agent it was taken from only as long as the change is
\* not through with its eviction, or a lookup that stored it has yet to check: when both
\* are over, the cache agrees with the agents (AgentGetByToken, evictAgentTokens).
OnlyCurrentTokensStay ==
  \A t \in Tokens :
    cachedOwner[t] \notin {NoOwner, owner[t]} =>
      \/ \E c \in Changers : change[c] # NoCall /\ change[c].agent = cachedOwner[t]
      \/ \E l \in Lookups : lookup[l].at = "check" /\ lookup[l].token = t
=============================================================================
