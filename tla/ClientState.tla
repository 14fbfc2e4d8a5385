----------------------------- MODULE ClientState -----------------------------
(***************************************************************************)
(* What the vendor personalities keep for their clients in memory: the     *)
(* session stores of personalities/hitachi/sessions.py and hpe3par/        *)
(* sessions.py, and the job history of hitachi/jobs.py.  A personality has *)
(* one store for all its arrays.  None of it survives the process.         *)
(*                                                                         *)
(* Session i is the i-th that its store made; the token or key, a random   *)
(* string, is the session's number here.                                   *)
(***************************************************************************)
EXTENDS Naturals, Sequences

CONSTANTS
  Ttl,          \* seconds a session lives, by store
  MaxHistory,   \* _MAX_HISTORY
  MaxSessions,  \* bound: sessions ever made by a store
  MaxJobs,      \* bound: jobs ever submitted
  MaxTime,      \* bound: the clock
  Null

Stores == {"hitachi", "hpe_3par"}
Sessions == 1..MaxSessions

ASSUME ClientStateAssumption ==
  /\ Ttl \in [Stores -> Nat]
  /\ MaxHistory \in Nat \ {0}
  /\ MaxSessions \in Nat /\ MaxJobs \in Nat /\ MaxTime \in Nat
  /\ Null \notin Nat

VARIABLES
  now,       \* time.monotonic
  born,      \* _sessions: when each session was made, or Null
  tokens,    \* _tokens of the Hitachi store: tokens that lead to a session
  made,      \* the sessions made by each store
  history,   \* _jobs, oldest first
  nextJob    \* _next_id

clientVars == <<now, born, tokens, made, history, nextJob>>

ClientTypeOK ==
  /\ now \in Nat
  /\ born \in [Stores -> [Sessions -> Nat \cup {Null}]]
  /\ tokens \subseteq Sessions
  /\ made \in [Stores -> Nat]
  /\ history \in Seq(Nat)
  /\ nextJob \in Nat \ {0}

NoSessions == [s \in Stores |-> [i \in Sessions |-> Null]]

ClientInit ==
  /\ now = 0
  /\ born = NoSessions /\ tokens = {} /\ made = [s \in Stores |-> 0]
  /\ history = <<>> /\ nextJob = 1

-----------------------------------------------------------------------------
(***************************************************************************)
(* Sessions                                                                *)
(***************************************************************************)
Expired(s, i) == now - born[s][i] > Ttl[s]

Live(s, i) == born[s][i] # Null /\ ~Expired(s, i)

\* Mutant: the session goes, its token stays.
WithTokensKept(ids) == tokens

\* _remove takes the token out with the session.
WithTokens(ids) == tokens \ ids

\* The sessions of the store without those in ids.
Without(s, ids) == [i \in Sessions |-> IF i \in ids THEN Null ELSE born[s][i]]

\* _evict_expired
ExpiredOf(s) == {i \in Sessions : born[s][i] # Null /\ Expired(s, i)}

CreateSession ==
  LET i == made["hitachi"] + 1
      gone == ExpiredOf("hitachi")
  IN /\ i \in Sessions
     /\ born' = [born EXCEPT !["hitachi"] = [Without("hitachi", gone) EXCEPT ![i] = now]]
     /\ tokens' = WithTokens(gone) \cup {i}
     /\ made' = [made EXCEPT !["hitachi"] = i]
     /\ UNCHANGED <<now, history, nextJob>>

CreateCredential ==
  LET i == made["hpe_3par"] + 1
  IN /\ i \in Sessions
     /\ born' = [born EXCEPT !["hpe_3par"] =
          [Without("hpe_3par", ExpiredOf("hpe_3par")) EXCEPT ![i] = now]]
     /\ made' = [made EXCEPT !["hpe_3par"] = i]
     /\ UNCHANGED <<now, tokens, history, nextJob>>

Remove(s, i) ==
  /\ born' = [born EXCEPT ![s] = Without(s, {i})]
  /\ tokens' = IF s = "hitachi" THEN WithTokens({i}) ELSE tokens
  /\ UNCHANGED <<now, made, history, nextJob>>

DeleteSession(i) == Remove("hitachi", i)

DeleteCredential(i) == Remove("hpe_3par", i)

\* validate: an expired session is removed by the request that shows it.
Reject(s, i) ==
  /\ born[s][i] # Null /\ Expired(s, i)
  /\ Remove(s, i)

-----------------------------------------------------------------------------
(***************************************************************************)
(* Jobs                                                                    *)
(***************************************************************************)
\* Mutant: the entry just added is the one dropped.
TrimmedNew(jobs) ==
  IF Len(jobs) > MaxHistory THEN SubSeq(jobs, 1, Len(jobs) - 1) ELSE jobs

\* _store drops the oldest.
Trimmed(jobs) == IF Len(jobs) > MaxHistory THEN Tail(jobs) ELSE jobs

SubmitCompleted ==
  /\ nextJob <= MaxJobs
  /\ history' = Trimmed(Append(history, nextJob))
  /\ nextJob' = nextJob + 1
  /\ UNCHANGED <<now, born, tokens, made>>

-----------------------------------------------------------------------------
Tick ==
  /\ now < MaxTime
  /\ now' = now + 1
  /\ UNCHANGED <<born, tokens, made, history, nextJob>>

\* Everything is gone, and numbers start again.
Restart ==
  /\ born' = NoSessions /\ tokens' = {} /\ made' = [s \in Stores |-> 0]
  /\ history' = <<>> /\ nextJob' = 1
  /\ UNCHANGED now

ClientNext ==
  \/ CreateSession \/ CreateCredential \/ SubmitCompleted \/ Tick \/ Restart
  \/ \E i \in Sessions : DeleteSession(i) \/ DeleteCredential(i)
  \/ \E s \in Stores, i \in Sessions : Reject(s, i)

ClientSpec == ClientInit /\ [][ClientNext]_clientVars

-----------------------------------------------------------------------------
\* The two maps of the Hitachi store agree, over every way out of it: no token
\* is left behind and none is missing (sessions.py:45-92).
TokensAgree == \A i \in Sessions : i \in tokens <=> born["hitachi"][i] # Null

\* A client finds its job as long as no MaxHistory later ones were submitted:
\* the history is a run of numbers that ends with the last one given out, as
\* long as it may be (jobs.py:50-97).
HistoryIsRecent ==
  /\ Len(history) = IF nextJob - 1 < MaxHistory THEN nextJob - 1 ELSE MaxHistory
  /\ \A k \in 1..Len(history) : history[k] = nextJob - 1 - Len(history) + k
=============================================================================
