--------------------------- MODULE FrontDoorProofs ---------------------------
(***************************************************************************)
(* What holds of the session stores and the job history, and of the front  *)
(* door that uses them, for every number of arrays, sessions, requests and *)
(* crashes, every lifetime and every length of the history.                *)
(***************************************************************************)
EXTENDS FrontDoor, TLAPS

-----------------------------------------------------------------------------
\* The session stores and the job history, by themselves.

IInv == ClientTypeOK /\ TokensAgree /\ HistoryIsRecent

\* The stores and the history start empty.
LEMMA InitIInv == ClientInit => IInv
<1> SUFFICES ASSUME ClientInit PROVE IInv
  OBVIOUS
<1> USE ClientStateAssumption DEF ClientInit, NoSessions, Sessions
<1>1. ClientTypeOK
  BY DEF ClientTypeOK, Stores
<1>2. TokensAgree
  BY DEF TokensAgree, Stores
<1>3. HistoryIsRecent
  BY DEF HistoryIsRecent
<1>4. QED
  BY <1>1, <1>2, <1>3 DEF IInv

\* Removing sessions from a store keeps its type.
LEMMA WithoutType ==
  ASSUME ClientTypeOK, NEW s \in Stores, NEW ids
  PROVE  /\ Without(s, ids) \in [Sessions -> Nat \cup {Null}]
         /\ \A i \in Sessions : Without(s, ids)[i] = IF i \in ids THEN Null ELSE born[s][i]
BY DEF ClientTypeOK, Without

\* Trimming keeps a run of numbers that ends with the last one.
LEMMA TrimmedIsRecent ==
  ASSUME ClientTypeOK, HistoryIsRecent, history' = Trimmed(Append(history, nextJob))
  PROVE  /\ history' \in Seq(Nat)
         /\ Len(history') = IF nextJob < MaxHistory THEN nextJob ELSE MaxHistory
         /\ \A k \in 1..Len(history') : history'[k] = nextJob - Len(history') + k
<1> USE ClientStateAssumption
<1> DEFINE long == Append(history, nextJob)
           n == Len(history)
<1>1. n \in Nat /\ nextJob \in Nat \ {0} /\ history \in Seq(Nat)
  BY DEF ClientTypeOK
<1>2. long \in Seq(Nat) /\ Len(long) = n + 1
  BY <1>1
<1>3. ASSUME NEW k \in 1..(n + 1)
      PROVE  long[k] = nextJob - 1 - n + k
  <2>0. n = nextJob - 1 \/ n = MaxHistory
    BY <1>1 DEF HistoryIsRecent
  <2>1. CASE k = n + 1
    <3>1. long[k] = nextJob
      BY <1>1, <2>1
    <3> HIDE DEF long, n
    <3> QED
      BY <1>1, <2>1, <3>1
  <2>2. CASE k \in 1..n
    <3>1. long[k] = history[k]
      BY <1>1, <2>2
    <3>2. history[k] = nextJob - 1 - n + k
      BY <2>2 DEF HistoryIsRecent
    <3> QED
      BY <3>1, <3>2
  <2> QED
    BY <1>1, <2>1, <2>2
<1>4. CASE n + 1 > MaxHistory
  <2>1. n = MaxHistory /\ nextJob - 1 >= MaxHistory
    BY <1>1, <1>4 DEF HistoryIsRecent
  <2>2. history' = Tail(long)
    BY <1>2, <1>4 DEF Trimmed
  <2>3. history' \in Seq(Nat) /\ Len(history') = n
    <3> HIDE DEF long
    <3>1. long # <<>>
      BY <1>1, <1>2
    <3> QED
      BY <1>1, <1>2, <2>2, <3>1
  <2>4. ASSUME NEW k \in 1..n PROVE history'[k] = long[k + 1]
    <3> HIDE DEF long
    <3>1. long # <<>>
      BY <1>1, <1>2
    <3> QED
      BY <1>1, <1>2, <2>2, <3>1
  <2>5. ASSUME NEW k \in 1..n PROVE history'[k] = nextJob - n + k
    <3>1. k + 1 \in 1..(n + 1)
      BY <1>1
    <3>2. long[k + 1] = nextJob - 1 - n + (k + 1)
      BY <1>3, <3>1
    <3> HIDE DEF long, n
    <3> QED
      BY <1>1, <2>4, <3>2
  <2> QED
    BY <1>1, <2>1, <2>3, <2>5
<1>5. CASE ~(n + 1 > MaxHistory)
  <2>1. n = nextJob - 1
    BY <1>1, <1>5 DEF HistoryIsRecent
  <2>2. history' = long
    BY <1>2, <1>5 DEF Trimmed
  <2>3. ASSUME NEW k \in 1..(n + 1) PROVE history'[k] = nextJob - (n + 1) + k
    <3>1. history'[k] = nextJob - 1 - n + k
      BY <1>3, <2>2
    <3> HIDE DEF n
    <3> QED
      BY <1>1, <3>1
  <2> QED
    BY <1>1, <1>2, <1>5, <2>1, <2>2, <2>3
<1> QED
  BY <1>4, <1>5

\* Every step of the stores and the history keeps the invariant.
LEMMA NextIInv == IInv /\ [ClientNext]_clientVars => IInv'
<1> SUFFICES ASSUME IInv, [ClientNext]_clientVars PROVE IInv'
  OBVIOUS
<1> USE ClientStateAssumption
<1>0. ClientTypeOK /\ TokensAgree /\ HistoryIsRecent
  BY DEF IInv
<1>1. CASE CreateSession
  <2> DEFINE gone == ExpiredOf("hitachi")
             i == made["hitachi"] + 1
  <2>1. /\ Without("hitachi", gone) \in [Sessions -> Nat \cup {Null}]
        /\ \A j \in Sessions :
             Without("hitachi", gone)[j] = IF j \in gone THEN Null ELSE born["hitachi"][j]
    BY <1>0, WithoutType DEF Stores
  <2>2. /\ i \in Sessions
        /\ born' = [born EXCEPT !["hitachi"] = [Without("hitachi", gone) EXCEPT ![i] = now]]
        /\ tokens' = (tokens \ gone) \cup {i}
        /\ made' = [made EXCEPT !["hitachi"] = i]
        /\ UNCHANGED <<now, history, nextJob>>
    BY <1>1 DEF CreateSession, WithTokens
  <2>3. now \in Nat /\ tokens \subseteq Sessions /\ made \in [Stores -> Nat]
        /\ born \in [Stores -> [Sessions -> Nat \cup {Null}]]
    BY <1>0 DEF ClientTypeOK
  <2>4. [Without("hitachi", gone) EXCEPT ![i] = now] \in [Sessions -> Nat \cup {Null}]
    BY <2>1, <2>3
  <2>5. ClientTypeOK'
    <3>1. born' \in [Stores -> [Sessions -> Nat \cup {Null}]]
      BY <2>2, <2>3, <2>4
    <3>2. made["hitachi"] \in Nat
      BY <2>3 DEF Stores
    <3>3. i \in Nat
      BY <3>2
    <3> HIDE DEF i
    <3>4. made' \in [Stores -> Nat]
      BY <2>2, <2>3, <3>3
    <3> QED
      BY <1>0, <2>2, <2>3, <3>1, <3>4 DEF ClientTypeOK
  <2>6. \A j \in Sessions :
          born'["hitachi"][j] = IF j = i THEN now ELSE IF j \in gone THEN Null
                                ELSE born["hitachi"][j]
    BY <2>1, <2>2, <2>3 DEF Stores
  <2>7. TokensAgree'
    BY <1>0, <2>2, <2>3, <2>6 DEF TokensAgree
  <2>8. HistoryIsRecent'
    BY <1>0, <2>2 DEF HistoryIsRecent
  <2> QED
    BY <2>5, <2>7, <2>8 DEF IInv
<1>2. CASE CreateCredential
  <2> DEFINE gone == ExpiredOf("hpe_3par")
             i == made["hpe_3par"] + 1
  <2>1. Without("hpe_3par", gone) \in [Sessions -> Nat \cup {Null}]
    BY <1>0, WithoutType DEF Stores
  <2>2. /\ i \in Sessions
        /\ born' = [born EXCEPT !["hpe_3par"] = [Without("hpe_3par", gone) EXCEPT ![i] = now]]
        /\ made' = [made EXCEPT !["hpe_3par"] = i]
        /\ UNCHANGED <<now, tokens, history, nextJob>>
    BY <1>2 DEF CreateCredential
  <2>3. ClientTypeOK'
    <3>1. born' \in [Stores -> [Sessions -> Nat \cup {Null}]]
      BY <1>0, <2>1, <2>2 DEF ClientTypeOK
    <3>2. made \in [Stores -> Nat] /\ made["hpe_3par"] \in Nat
      BY <1>0 DEF ClientTypeOK, Stores
    <3>3. i \in Nat
      BY <3>2
    <3> HIDE DEF i
    <3>4. made' \in [Stores -> Nat]
      BY <2>2, <3>2, <3>3
    <3> QED
      BY <1>0, <2>2, <3>1, <3>4 DEF ClientTypeOK
  <2>4. born'["hitachi"] = born["hitachi"]
    BY <1>0, <2>2 DEF ClientTypeOK, Stores
  <2> QED
    BY <1>0, <2>2, <2>3, <2>4 DEF IInv, TokensAgree, HistoryIsRecent
<1>3. ASSUME NEW s \in Stores, NEW i \in Sessions, Remove(s, i)
      PROVE  IInv'
  <2>1. /\ Without(s, {i}) \in [Sessions -> Nat \cup {Null}]
        /\ \A j \in Sessions : Without(s, {i})[j] = IF j \in {i} THEN Null ELSE born[s][j]
    BY <1>0, WithoutType
  <2>2. /\ born' = [born EXCEPT ![s] = Without(s, {i})]
        /\ tokens' = IF s = "hitachi" THEN tokens \ {i} ELSE tokens
        /\ UNCHANGED <<now, made, history, nextJob>>
    BY <1>3 DEF Remove, WithTokens
  <2>3. ClientTypeOK'
    BY <1>0, <2>1, <2>2 DEF ClientTypeOK
  <2>4. TokensAgree'
    <3>1. CASE s = "hitachi"
      BY <1>0, <2>1, <2>2, <3>1 DEF TokensAgree, ClientTypeOK
    <3>2. CASE s # "hitachi"
      <4>1. born'["hitachi"] = born["hitachi"]
        BY <1>0, <2>2, <3>2 DEF ClientTypeOK, Stores
      <4> QED
        BY <1>0, <2>2, <3>2, <4>1 DEF TokensAgree
    <3> QED
      BY <3>1, <3>2
  <2> QED
    BY <1>0, <2>2, <2>3, <2>4 DEF IInv, HistoryIsRecent
<1>4. CASE SubmitCompleted
  <2>1. /\ history' \in Seq(Nat)
        /\ Len(history') = IF nextJob < MaxHistory THEN nextJob ELSE MaxHistory
        /\ \A k \in 1..Len(history') : history'[k] = nextJob - Len(history') + k
    BY <1>0, <1>4, TrimmedIsRecent DEF SubmitCompleted
  <2>2. nextJob' = nextJob + 1 /\ nextJob \in Nat
    BY <1>0, <1>4 DEF SubmitCompleted, ClientTypeOK
  <2>3. HistoryIsRecent'
    <3>1. nextJob' - 1 = nextJob
      BY <2>2
    <3> QED
      BY <2>1, <3>1 DEF HistoryIsRecent
  <2>4. ClientTypeOK'
    BY <1>0, <1>4, <2>1, <2>2 DEF SubmitCompleted, ClientTypeOK
  <2> QED
    BY <1>0, <1>4, <2>3, <2>4 DEF IInv, SubmitCompleted, TokensAgree
<1>5. CASE Tick
  <2>1. ClientTypeOK'
    BY <1>0, <1>5 DEF Tick, ClientTypeOK
  <2>2. TokensAgree'
    BY <1>0, <1>5 DEF Tick, TokensAgree
  <2>3. HistoryIsRecent'
    BY <1>0, <1>5 DEF Tick, HistoryIsRecent
  <2> QED
    BY <2>1, <2>2, <2>3 DEF IInv
<1>6. CASE Restart
  <2>2. ClientTypeOK'
    BY <1>0, <1>6 DEF Restart, ClientTypeOK, NoSessions
  <2>3. TokensAgree'
    BY <1>6 DEF Restart, TokensAgree, NoSessions, Stores
  <2>4. HistoryIsRecent'
    BY <1>6 DEF Restart, HistoryIsRecent
  <2> QED
    BY <2>2, <2>3, <2>4 DEF IInv
<1>7. CASE UNCHANGED clientVars
  BY <1>0, <1>7 DEF clientVars, IInv, ClientTypeOK, TokensAgree, HistoryIsRecent
<1>8. ASSUME NEW i \in Sessions, DeleteSession(i) \/ DeleteCredential(i)
      PROVE  IInv'
  BY <1>3, <1>8 DEF DeleteSession, DeleteCredential, Stores
<1>9. ASSUME NEW s \in Stores, NEW i \in Sessions, Reject(s, i)
      PROVE  IInv'
  BY <1>3, <1>9 DEF Reject
<1> QED
  BY <1>1, <1>2, <1>4, <1>5, <1>6, <1>7, <1>8, <1>9 DEF ClientNext

\* The invariant holds in every behaviour.
LEMMA Invariance == ClientSpec => []IInv
BY InitIInv, NextIInv, PTL DEF ClientSpec

\* Every token leads to a stored session and every stored session has its token.
THEOREM TokensAlwaysAgree == ClientSpec => []TokensAgree
<1>1. IInv => TokensAgree
  BY DEF IInv
<1> QED
  BY Invariance, <1>1, PTL

\* The history is always the latest run of job numbers.
THEOREM HistoryAlwaysRecent == ClientSpec => []HistoryIsRecent
<1>1. IInv => HistoryIsRecent
  BY DEF IInv
<1> QED
  BY Invariance, <1>1, PTL

-----------------------------------------------------------------------------
\* The stores in the front door.

\* Every step of the front door is a step of the stores, or leaves them alone.
LEMMA StepOfStores == [Next]_vars => [ClientNext]_clientVars
<1> SUFFICES ASSUME [Next]_vars PROVE ClientNext \/ UNCHANGED clientVars
  OBVIOUS
<1>1. CASE Start
  BY <1>1 DEF Start, Boot, Lifespan, WriteOn, SyncFails, BuildContexts, IssuePair
<1>2. CASE Crash
  BY <1>2 DEF Crash, ClientNext
<1>3. CASE TimePasses
  BY <1>3 DEF TimePasses, ClientNext
<1>4. ASSUME NEW n \in Names, GetOld(n) \/ AskByHost(n)
      PROVE  UNCHANGED clientVars
  BY <1>4 DEF GetOld, AskByHost
<1>5. ASSUME NEW a \in Admins,
             \/ CreateArray(a) \/ UpdateArray(a) \/ DeleteArray(a) \/ SyncTls(a)
             \/ ReadArrays(a) \/ SwapRegistry(a)
      PROVE  UNCHANGED clientVars
  BY <1>5 DEF CreateArray, UpdateArray, DeleteArray, SyncTls, ReadArrays, SwapRegistry, Commit
<1>6. CASE ReadVendor \/ LookupFails \/ FillCache
  BY <1>6 DEF ReadVendor, LookupFails, FillCache
<1>7. CASE HitachiSession
  BY <1>7 DEF HitachiSession, ClientNext
<1>8. CASE WsapiCredential
  BY <1>8 DEF WsapiCredential, ClientNext
<1>9. CASE AcceptJob
  BY <1>9 DEF AcceptJob, ClientNext
<1>10. ASSUME NEW v \in Stores, AskByPath(v) \/ RequireSession(v) \/ Answer(v)
       PROVE  ClientNext \/ UNCHANGED clientVars
  <2>1. CASE RequireSession(v)
    BY <2>1 DEF RequireSession, ClientNext
  <2>2. CASE AskByPath(v) \/ Answer(v)
    BY <2>2 DEF AskByPath, Answer
  <2> QED
    BY <1>10, <2>1, <2>2
<1>11. CASE UNCHANGED vars
  BY <1>11 DEF vars, clientVars
<1> QED
  BY <1>1, <1>2, <1>3, <1>4, <1>5, <1>6, <1>7, <1>8, <1>9, <1>10, <1>11 DEF Next

\* The front door implements the stores' own specification: it changes sessions
\* and jobs in no other way than their operations do (api and personalities).
THEOREM ImplementsClientState == Spec => ClientSpec
<1>1. Init => ClientInit
  BY DEF Init
<1> QED
  BY <1>1, StepOfStores, PTL DEF Spec, ClientSpec

\* So the stores' promises hold of the whole gateway.
THEOREM TokensAgreeHere == Spec => []TokensAgree
BY ImplementsClientState, TokensAlwaysAgree, PTL

\* The job history is recent whatever the front door does: jobs are its own
\* operations only (jobs.py:80-97).
THEOREM HistoryIsRecentHere == Spec => []HistoryIsRecent
BY ImplementsClientState, HistoryAlwaysRecent, PTL

-----------------------------------------------------------------------------
\* The new certificate is not there yet: what is in its place is missing or old.
NotYet(n) == pair[n].crt = "none" \/ (pair[n].crt = "whole" /\ pair[n].expiring)

\* A certificate has a key beside it, and one that is whole and not old its own:
\* of a pair it is the certificate that is written last, and nothing parsed as
\* whole is replaced before it is old.
FilesOK ==
  /\ pair \in [Pairs -> Pair]
  /\ issuing \in Pairs \cup {Null} /\ turn \in 0..3
  /\ issuing # Null => turn # 0
  /\ turn = 1 => pair[issuing].key # "none" /\ NotYet(issuing)
  /\ turn = 2 => pair[issuing].key = "whole" /\ NotYet(issuing)
  /\ turn = 3 => pair[issuing].key = "whole" /\ pair[issuing].crt = "torn"
  /\ turn # 0 => issuing # Null
  /\ \A n \in Pairs :
       /\ pair[n].crt # "none" => pair[n].key # "none"
       /\ pair[n].crt = "whole" /\ ~pair[n].expiring => pair[n].key = "whole" /\ pair[n].match

\* No pair is there before the first start.
LEMMA InitFilesOK == Init => FilesOK
<1> SUFFICES ASSUME Init PROVE FilesOK
  OBVIOUS
<1>1. pair = [n \in Pairs |-> NoPair] /\ issuing = Null /\ turn = 0
  BY DEF Init
<1>2. NoPair \in Pair /\ NoPair.crt = "none"
  BY DEF NoPair, Pair, Contents
<1>3. pair \in [Pairs -> Pair] /\ \A n \in Pairs : pair[n] = NoPair
  BY <1>1, <1>2
<1> QED
  BY <1>1, <1>2, <1>3 DEF FilesOK

\* What each write does to a pair.
LEMMA WrittenPair ==
  ASSUME NEW file \in Pair
  PROVE  /\ \A k \in 1..4 : Written(file, k) \in Pair
         /\ Written(file, 1).key = "torn" /\ Written(file, 1).crt = file.crt
         /\ Written(file, 1).expiring = file.expiring
         /\ Written(file, 2).key = "whole" /\ Written(file, 2).crt = file.crt
         /\ Written(file, 2).expiring = file.expiring
         /\ Written(file, 3).key = file.key /\ Written(file, 3).crt = "torn"
         /\ Written(file, 4).key = file.key /\ Written(file, 4).crt = "whole"
         /\ Written(file, 4).match
<1>1. /\ Written(file, 1) = [file EXCEPT !.key = "torn", !.match = FALSE]
      /\ Written(file, 2) = [file EXCEPT !.key = "whole"]
      /\ Written(file, 3) = [file EXCEPT !.crt = "torn", !.expiring = FALSE]
      /\ Written(file, 4) = [file EXCEPT !.crt = "whole", !.match = TRUE]
  BY DEF Written
<1>2. PICK k \in Contents, c \in Contents, m \in BOOLEAN, e \in BOOLEAN :
        file = [key |-> k, crt |-> c, match |-> m, expiring |-> e]
  BY DEF Pair
<1>3. /\ Written(file, 1) = [key |-> "torn", crt |-> c, match |-> FALSE, expiring |-> e]
      /\ Written(file, 2) = [key |-> "whole", crt |-> c, match |-> m, expiring |-> e]
      /\ Written(file, 3) = [key |-> k, crt |-> "torn", match |-> m, expiring |-> FALSE]
      /\ Written(file, 4) = [key |-> k, crt |-> "whole", match |-> TRUE, expiring |-> e]
  BY <1>1, <1>2
<1>4. /\ [key |-> "torn", crt |-> c, match |-> FALSE, expiring |-> e] \in Pair
      /\ [key |-> "whole", crt |-> c, match |-> m, expiring |-> e] \in Pair
      /\ [key |-> k, crt |-> "torn", match |-> m, expiring |-> FALSE] \in Pair
      /\ [key |-> k, crt |-> "whole", match |-> TRUE, expiring |-> e] \in Pair
  BY Zenon DEF Pair, Contents
<1>5. /\ Written(file, 1) \in Pair /\ Written(file, 2) \in Pair
      /\ Written(file, 3) \in Pair /\ Written(file, 4) \in Pair
  BY <1>3, <1>4, Zenon
<1>6. \A i \in 1..4 : i = 1 \/ i = 2 \/ i = 3 \/ i = 4
  OBVIOUS
<1>7. \A i \in 1..4 : Written(file, i) \in Pair
  BY <1>5, <1>6, Zenon
<1>8. file.key = k /\ file.crt = c /\ file.match = m /\ file.expiring = e
  BY <1>2
<1> QED
  BY <1>3, <1>7, <1>8

\* Each step keeps the files' invariant: a key is written before its
\* certificate and never removed.
LEMMA FilesStep == FilesOK /\ [Next]_vars => FilesOK'
<1> SUFFICES ASSUME FilesOK, [Next]_vars PROVE FilesOK'
  OBVIOUS
<1>0. /\ pair \in [Pairs -> Pair] /\ issuing \in Pairs \cup {Null} /\ turn \in 0..3
      /\ \A n \in Pairs : pair[n].crt # "none" => pair[n].key # "none"
      /\ Null \notin Pairs
  BY FrontDoorAssumption DEF FilesOK, Pairs
<1>1. ASSUME UNCHANGED pair, UNCHANGED <<issuing, turn>> \/ (issuing' = Null /\ turn' = 0)
      PROVE  FilesOK'
  BY <1>1 DEF FilesOK, NotYet
<1>2. ASSUME NEW n \in Pairs, IssuePair(n)
      PROVE  FilesOK'
  <2>1. pair' = [pair EXCEPT ![n] = Written(pair[n], 1)] /\ issuing' = n /\ turn' = 1
    BY <1>2 DEF IssuePair
  <2>2. /\ Written(pair[n], 1) \in Pair
        /\ Written(pair[n], 1).key = "torn"
        /\ Written(pair[n], 1).crt = pair[n].crt
        /\ Written(pair[n], 1).expiring = pair[n].expiring
    BY <1>0, WrittenPair
  <2>3. NotYet(n)
    <3>1. NeedsReissue(n) /\ pair[n].crt \in Contents
      BY <1>0, <1>2 DEF IssuePair, Pair
    <3>2. CASE Missing(n)
      BY <1>0, <3>2 DEF Missing, NotYet
    <3>3. CASE ~Missing(n)
      BY <3>1, <3>3 DEF NeedsReissue, Raises, Missing, NotYet, Contents
    <3> QED
      BY <3>2, <3>3
  <2>4. /\ pair' \in [Pairs -> Pair]
        /\ pair'[n] = Written(pair[n], 1)
        /\ \A x \in Pairs \ {n} : pair'[x] = pair[x]
    BY <1>0, <2>1, <2>2
  <2>5. NotYet(n)'
    BY <2>2, <2>3, <2>4 DEF NotYet
  <2> QED
    BY <1>0, <2>1, <2>2, <2>3, <2>4, <2>5 DEF FilesOK, NotYet
<1>3. CASE WriteOn
  <2> DEFINE n == issuing
             file == Written(pair[n], turn + 1)
  <2>1. /\ n \in Pairs /\ turn \in 1..3
        /\ pair' = [pair EXCEPT ![n] = file]
        /\ issuing' = (IF turn = 3 THEN Null ELSE n)
        /\ turn' = IF turn = 3 THEN 0 ELSE turn + 1
    BY <1>0, <1>3 DEF WriteOn, FilesOK
  <2>2. pair[n] \in Pair /\ file \in Pair
    BY <1>0, <2>1, WrittenPair
  <2>3. /\ pair' \in [Pairs -> Pair]
        /\ pair'[n] = file
        /\ \A x \in Pairs \ {n} : pair'[x] = pair[x]
    BY <1>0, <2>1, <2>2
  <2>4. /\ issuing' \in Pairs \cup {Null} /\ turn' \in 0..3
        /\ issuing' # Null => turn' # 0
        /\ turn' # 0 => issuing' # Null
    BY <1>0, <2>1
  <2>5. CASE turn = 1
    <3>1. file.key = "whole" /\ file.crt = pair[n].crt /\ file.expiring = pair[n].expiring
      BY <2>2, <2>5, WrittenPair
    <3>2. turn' = 2 /\ issuing' = n /\ NotYet(n)
      BY <2>1, <2>5 DEF FilesOK
    <3>3. NotYet(n)' /\ NotYet(issuing)'
      BY <2>3, <3>1, <3>2 DEF NotYet
    <3> HIDE DEF file
    <3> QED
      BY <2>3, <2>4, <3>1, <3>2, <3>3 DEF FilesOK, NotYet
  <2>6. CASE turn = 2
    <3>1. file.key = pair[n].key /\ file.crt = "torn"
      BY <2>2, <2>6, WrittenPair
    <3>2. turn' = 3 /\ issuing' = n /\ pair[n].key = "whole"
      BY <2>1, <2>6 DEF FilesOK
    <3> HIDE DEF file
    <3> QED
      BY <2>3, <2>4, <3>1, <3>2 DEF FilesOK
  <2>7. CASE turn = 3
    <3>1. file.key = pair[n].key /\ file.crt = "whole" /\ file.match
      BY <2>2, <2>7, WrittenPair
    <3>2. turn' = 0 /\ issuing' = Null /\ pair[n].key = "whole"
      BY <2>1, <2>7 DEF FilesOK
    <3> HIDE DEF file
    <3> QED
      BY <2>3, <2>4, <3>1, <3>2 DEF FilesOK
  <2> QED
    BY <2>1, <2>5, <2>6, <2>7
<1>4. ASSUME NEW n \in Names, GetOld(n)
      PROVE  FilesOK'
  <2>1. /\ n \in Pairs /\ pair' = [pair EXCEPT ![n] = [pair[n] EXCEPT !.expiring = TRUE]]
        /\ UNCHANGED <<issuing, turn>> /\ pair[n].crt = "whole" /\ ~pair[n].expiring
    BY <1>4 DEF GetOld, tls, Pairs
  <2>2. /\ [pair[n] EXCEPT !.expiring = TRUE] \in Pair
        /\ [pair[n] EXCEPT !.expiring = TRUE].key = pair[n].key
        /\ [pair[n] EXCEPT !.expiring = TRUE].crt = pair[n].crt
        /\ [pair[n] EXCEPT !.expiring = TRUE].expiring
    BY <1>0, <2>1 DEF Pair
  <2>3. /\ pair' \in [Pairs -> Pair]
        /\ pair'[n] = [pair[n] EXCEPT !.expiring = TRUE]
        /\ \A x \in Pairs \ {n} : pair'[x] = pair[x]
    BY <1>0, <2>1, <2>2
  <2>4. turn = 0 \/ issuing # n
    BY <2>1 DEF FilesOK, NotYet
  <2>5. turn # 0 => pair'[issuing] = pair[issuing]
    BY <2>3, <2>4 DEF FilesOK
  <2> QED
    BY <1>0, <2>1, <2>2, <2>3, <2>5 DEF FilesOK, NotYet
<1>5. CASE Start
  <2>1. CASE Boot \/ Lifespan \/ SyncFails \/ BuildContexts
    BY <1>1, <2>1 DEF Boot, Lifespan, SyncFails, BuildContexts, stored
  <2> QED
    BY <1>2, <1>3, <1>5, <2>1 DEF Start
<1>6. CASE Crash \/ TimePasses \/ ReadVendor \/ LookupFails \/ FillCache
  BY <1>1, <1>6 DEF Crash, TimePasses, ReadVendor, LookupFails, FillCache, Serving, stored, tls
<1>7. CASE HitachiSession \/ WsapiCredential \/ AcceptJob
  BY <1>1, <1>7 DEF HitachiSession, WsapiCredential, AcceptJob, Done, Serving, stored, tls
<1>8. ASSUME NEW a \in Admins,
             \/ CreateArray(a) \/ UpdateArray(a) \/ DeleteArray(a) \/ SyncTls(a)
             \/ ReadArrays(a) \/ SwapRegistry(a)
      PROVE  FilesOK'
  BY <1>1, <1>8 DEF CreateArray, UpdateArray, DeleteArray, SyncTls, ReadArrays, SwapRegistry,
                    Commit, stored, tls
<1>9. ASSUME NEW n \in Names, AskByHost(n)
      PROVE  FilesOK'
  BY <1>1, <1>9 DEF AskByHost, Serving, stored, tls
<1>10. ASSUME NEW v \in Stores, AskByPath(v) \/ RequireSession(v) \/ Answer(v)
       PROVE  FilesOK'
  BY <1>1, <1>10 DEF AskByPath, RequireSession, Answer, Done, Serving, stored, tls
<1>11. CASE UNCHANGED vars
  BY <1>1, <1>11 DEF vars, stored, tls
<1> QED
  BY <1>4, <1>5, <1>6, <1>7, <1>8, <1>9, <1>10, <1>11 DEF Next

\* What the look takes as it is loads.
LEMMA PassedLoads == FilesOK => PairsLoad
<1> SUFFICES ASSUME FilesOK, NEW n \in Pairs, Passes(n)
             PROVE  pair[n].key = "whole" /\ pair[n].crt = "whole" /\ pair[n].match
  BY DEF PairsLoad
<1>1. pair[n].crt \in Contents
  BY DEF FilesOK, Pair
<1>2. ~Missing(n) /\ pair[n].crt # "torn" /\ ~pair[n].expiring
  BY DEF Passes, Raises, NeedsReissue
<1> QED
  BY <1>1, <1>2 DEF Missing, Contents, FilesOK

\* No crash, in any write of any start or refresh, leaves files that the look
\* takes as they are and that do not load, for any number of arrays and crashes
\* (tls/manager.py:142-168, sni.py:28).
THEOREM PairsAlwaysLoad == Spec => []PairsLoad
BY InitFilesOK, FilesStep, PassedLoads, PTL DEF Spec

-----------------------------------------------------------------------------
Rows == [Names -> Vendors \cup {Null}]
Found == Names \cup {Null}
AdminSteps == {"idle", "rebuild", "swap"}
ClientSteps == {"idle", "read", "fill", "persona", "work"}

\* The types, of each part as precise as its steps need it.
ArraysOK ==
  /\ arrays \in Rows /\ registry \in Rows
  /\ phase \in {"down", "boot", "lifespan", "up", "refresh"}
  /\ todo \subseteq Pairs /\ contexts \subseteq Names
  /\ admin \in [Admins -> [step : AdminSteps, rows : Rows]]
  /\ crashes \in 0..MaxCrashes

LookupsOK ==
  /\ now \in Nat
  /\ cache \in [Stores -> [found : Found, at : Nat] \cup {Null}]
  /\ client \in [step : ClientSteps, vendor : Stores \cup {Null}, at : Nat \cup {Null},
                 found : Found]
  /\ client.step \in {"read", "fill"} => client.vendor \in Stores /\ client.at \in Nat
  /\ lost \in [Stores -> [Found -> Nat \cup {Null}]]

NamesArrays == <<arrays, registry, phase, todo, contexts, admin, crashes>>
Lookups == <<now, cache, client, lost, arrays>>

\* What the constants are.
LEMMA Constants ==
  /\ NoRows \in Rows
  /\ Null \in Found /\ "generic" \in Vendors
  /\ Stores \subseteq Vendors
  /\ [step |-> "idle", rows |-> NoRows] \in [step : AdminSteps, rows : Rows]
BY DEF NoRows, Rows, Found, Vendors, AdminSteps

\* Administrators' commits are of rows.
LEMMA CommitRows ==
  ASSUME arrays \in Rows, NEW a \in Admins,
         CreateArray(a) \/ UpdateArray(a) \/ DeleteArray(a) \/ SyncTls(a)
  PROVE  \E rows \in Rows : Commit(a, rows)
<1>1. ASSUME NEW n \in Names, NEW v \in Vendors \cup {Null} PROVE [arrays EXCEPT ![n] = v] \in Rows
  BY DEF Rows
<1>2. Managed \subseteq Names /\ \A v \in Stores : v \in Vendors \cup {Null}
  BY FrontDoorAssumption DEF Vendors
<1>3. CASE CreateArray(a)
  BY <1>1, <1>2, <1>3 DEF CreateArray
<1>4. CASE UpdateArray(a)
  BY <1>1, <1>2, <1>4 DEF UpdateArray
<1>5. CASE DeleteArray(a)
  BY <1>1, <1>2, <1>5 DEF DeleteArray
<1>6. CASE SyncTls(a)
  BY <1>6 DEF SyncTls
<1> QED
  BY <1>3, <1>4, <1>5, <1>6

\* The steps that have nothing to do with the arrays and what is derived of them.
LEMMA NamesArraysStay ==
  ASSUME \/ \E n \in Names : GetOld(n) \/ AskByHost(n)
         \/ \E n \in Pairs : IssuePair(n)
         \/ WriteOn \/ TimePasses
         \/ ReadVendor \/ LookupFails \/ FillCache \/ HitachiSession \/ WsapiCredential \/ AcceptJob
         \/ \E v \in Stores : AskByPath(v) \/ RequireSession(v) \/ Answer(v)
  PROVE  UNCHANGED NamesArrays
<1>1. ASSUME NEW n \in Names, GetOld(n) \/ AskByHost(n)
      PROVE  UNCHANGED NamesArrays
  BY <1>1 DEF GetOld, AskByHost, Serving, NamesArrays, stored, tls
<1>2. CASE TimePasses \/ ReadVendor \/ LookupFails \/ FillCache
  BY <1>2
     DEF TimePasses, ReadVendor, LookupFails, FillCache, Serving, NamesArrays, stored, tls
<1>3. CASE HitachiSession \/ WsapiCredential \/ AcceptJob
  BY <1>3
     DEF HitachiSession, WsapiCredential, AcceptJob, Done, Serving, NamesArrays, stored, tls
<1>4. ASSUME NEW v \in Stores, AskByPath(v) \/ RequireSession(v) \/ Answer(v)
      PROVE  UNCHANGED NamesArrays
  BY <1>4 DEF AskByPath, RequireSession, Answer, Done, Serving, NamesArrays, stored, tls
<1>5. CASE WriteOn \/ \E n \in Pairs : IssuePair(n)
  BY <1>5 DEF WriteOn, IssuePair, NamesArrays
<1> QED
  BY <1>1, <1>2, <1>3, <1>4, <1>5

\* The types of the arrays, and of what is derived of them, are kept.
LEMMA ArraysTyped ==
  ASSUME ArraysOK, [Next]_vars
  PROVE  ArraysOK'
<1>1. ASSUME UNCHANGED NamesArrays PROVE ArraysOK'
  BY <1>1 DEF NamesArrays, ArraysOK
<1>2. CASE Boot \/ Lifespan \/ SyncFails \/ BuildContexts
  BY <1>2 DEF Boot, Lifespan, SyncFails, BuildContexts, ArraysOK, Rebuilt, NamesIn, Pairs, stored
<1>3. CASE Crash
  BY <1>3, Constants, FrontDoorAssumption DEF Crash, ArraysOK, NoAdmins, stored
<1>4. ASSUME NEW a \in Admins,
             CreateArray(a) \/ UpdateArray(a) \/ DeleteArray(a) \/ SyncTls(a)
      PROVE  ArraysOK'
  <2>1. PICK rows \in Rows : Commit(a, rows)
    BY <1>4, CommitRows DEF ArraysOK
  <2>2. admin' \in [Admins -> [step : AdminSteps, rows : Rows]]
    BY <2>1 DEF Commit, ArraysOK, AdminSteps
  <2> QED
    BY <2>1, <2>2 DEF Commit, ArraysOK, tls
<1>5. ASSUME NEW a \in Admins, ReadArrays(a) \/ SwapRegistry(a)
      PROVE  ArraysOK'
  <2>1. admin' \in [Admins -> [step : AdminSteps, rows : Rows]]
    BY <1>5, Constants DEF ReadArrays, SwapRegistry, ArraysOK, AdminSteps
  <2>2. admin[a].rows \in Rows
    BY DEF ArraysOK
  <2> QED
    BY <1>5, <2>1, <2>2 DEF ReadArrays, SwapRegistry, ArraysOK, Rebuilt, NamesIn, Pairs, stored, tls
<1>6. CASE UNCHANGED vars
  BY <1>1, <1>6 DEF vars, stored, tls, NamesArrays
<1> QED
  BY <1>1, <1>2, <1>3, <1>4, <1>5, <1>6, NamesArraysStay DEF Next, Start

-----------------------------------------------------------------------------
\* No two administrators' refreshes overlap: the older rows could come last.
OneAdmin == \A a, b \in Admins : a = b

\* What a refresh has read is what is in the table, and what it does not yet
\* have done it has yet to do.
VhostInv ==
  /\ phase # "up" => \A a \in Admins : admin[a].step = "idle"
  /\ \A a \in Admins : admin[a].step = "swap" => admin[a].rows = arrays
  /\ Busy => todo = NamesIn(arrays) \cup {Authority}
  /\ phase = "refresh" => registry = arrays
  /\ phase = "lifespan" => contexts = NamesIn(arrays)
  /\ VhostsCurrent

\* Files that the look cannot take are those of the pair that is being issued,
\* or of one that every start looks at and none gets past.
TornInv ==
  /\ issuing # Null => Busy /\ issuing \in todo
  /\ \A n \in Pairs : Raises(n) =>
       \/ issuing = n
       \/ phase \in {"down", "boot"} /\ n \in NamesIn(arrays) \cup {Authority}

\* VhostInv is inductive, given the types: only a start meets torn files.
LEMMA NextVhosts ==
  ASSUME OneAdmin, ArraysOK, VhostInv, TornInv, [Next]_vars
  PROVE  VhostInv'
<1>1. ASSUME UNCHANGED NamesArrays PROVE VhostInv'
  BY <1>1 DEF NamesArrays, VhostInv, VhostsCurrent, Busy, NamesIn
<1>2. CASE Boot
  BY <1>2 DEF Boot, VhostInv, VhostsCurrent, Busy, NamesIn, stored
<1>3. CASE BuildContexts
  <2>1. todo \ {Authority} = NamesIn(arrays)
    BY <1>3, FrontDoorAssumption DEF BuildContexts, VhostInv, NamesIn
  <2> QED
    BY <1>3, <2>1 DEF BuildContexts, VhostInv, VhostsCurrent, Busy, NamesIn, stored
<1>11. CASE SyncFails
  <2>1. PICK n \in todo : Raises(n)
    BY <1>11 DEF SyncFails
  <2>2. n \in Pairs /\ issuing = Null /\ Null \notin Pairs
    BY <1>11, FrontDoorAssumption DEF SyncFails, ArraysOK, Pairs
  <2>3. phase = "boot"
    BY <1>11, <2>1, <2>2 DEF SyncFails, TornInv, Busy
  <2> QED
    BY <1>11, <2>3 DEF SyncFails, VhostInv, VhostsCurrent, Busy, stored
<1>4. CASE Lifespan
  BY <1>4 DEF Lifespan, VhostInv, VhostsCurrent, Busy, NamesIn, Rebuilt, stored
<1>5. CASE Crash
  BY <1>5 DEF Crash, NoAdmins, VhostInv, VhostsCurrent, Busy
<1>6. ASSUME NEW a \in Admins, NEW rows \in Rows, Commit(a, rows)
      PROVE  VhostInv'
  <2>1. /\ phase = "up" /\ phase' = "up" /\ admin'[a].step = "rebuild"
        /\ \A b \in Admins : b = a
    BY <1>6 DEF Commit, tls, OneAdmin, ArraysOK
  <2> QED
    BY <2>1 DEF VhostInv, VhostsCurrent, Busy
<1>7. ASSUME NEW a \in Admins, ReadArrays(a)
      PROVE  VhostInv'
  <2>1. /\ phase = "up" /\ phase' = "up" /\ arrays' = arrays
        /\ admin'[a].step = "swap" /\ admin'[a].rows = arrays
        /\ \A b \in Admins : b = a
    BY <1>7 DEF ReadArrays, stored, tls, OneAdmin, ArraysOK
  <2> QED
    BY <2>1 DEF VhostInv, VhostsCurrent, Busy
<1>8. ASSUME NEW a \in Admins, SwapRegistry(a)
      PROVE  VhostInv'
  <2>1. /\ phase' = "refresh" /\ arrays' = arrays /\ registry' = arrays
        /\ todo' = NamesIn(arrays) \cup {Authority} /\ admin'[a].step = "idle"
        /\ \A b \in Admins : b = a
    BY <1>8 DEF SwapRegistry, Rebuilt, stored, OneAdmin, ArraysOK, VhostInv
  <2> QED
    BY <2>1 DEF VhostInv, VhostsCurrent, Busy, NamesIn
<1>9. ASSUME NEW a \in Admins,
             CreateArray(a) \/ UpdateArray(a) \/ DeleteArray(a) \/ SyncTls(a)
      PROVE  VhostInv'
  BY <1>6, <1>9, CommitRows DEF ArraysOK
<1>10. CASE UNCHANGED vars
  BY <1>1, <1>10 DEF vars, stored, tls, NamesArrays
<1> QED
  BY <1>1, <1>2, <1>3, <1>4, <1>5, <1>7, <1>8, <1>9, <1>10, <1>11, NamesArraysStay
     DEF Next, Start

\* TornInv is inductive: what is being issued is looked at, and a start or a
\* refresh that ends well has found every pair whole.
LEMMA NextTorn ==
  ASSUME ArraysOK, FilesOK, VhostInv, TornInv, [Next]_vars
  PROVE  TornInv'
<1>0. /\ pair \in [Pairs -> Pair] /\ issuing \in Pairs \cup {Null} /\ turn \in 0..3
      /\ Null \notin Pairs
  BY FrontDoorAssumption DEF FilesOK, Pairs
<1>1. ASSUME UNCHANGED <<pair, issuing, arrays, phase, todo>> PROVE TornInv'
  BY <1>1 DEF TornInv, Busy, Raises, Missing, NamesIn
<1>2. ASSUME phase \notin {"down", "boot", "refresh"} PROVE issuing = Null /\ \A n \in Pairs : ~Raises(n)
  BY <1>0, <1>2 DEF TornInv, Busy
<1>3. ASSUME phase \notin {"down", "boot", "refresh"}, UNCHANGED <<pair, issuing>>
      PROVE  TornInv'
  BY <1>2, <1>3 DEF TornInv, Raises, Missing
<1>4. CASE Boot
  BY <1>0, <1>4 DEF Boot, TornInv, Busy, Raises, Missing, NamesIn, stored
<1>5. CASE BuildContexts
  <2>1. \A n \in Pairs : ~Raises(n)
    BY <1>0, <1>5 DEF BuildContexts, TornInv, VhostInv, Busy, Passes
  <2> QED
    BY <1>5, <2>1 DEF BuildContexts, TornInv, Raises, Missing, stored
<1>6. CASE SyncFails
  <2>1. PICK n \in todo : Raises(n)
    BY <1>6 DEF SyncFails
  <2>2. issuing = Null /\ phase = "boot"
    BY <1>0, <1>6, <2>1 DEF SyncFails, TornInv, ArraysOK, Busy
  <2> QED
    BY <1>0, <1>6, <2>2 DEF SyncFails, TornInv, Raises, Missing, NamesIn, stored
<1>7. CASE Crash
  BY <1>0, <1>7 DEF Crash, TornInv, VhostInv, Busy, Raises, Missing, NamesIn, stored
<1>8. ASSUME NEW n \in Pairs, IssuePair(n) PROVE TornInv'
  <2>1. /\ pair' = [pair EXCEPT ![n] = Written(pair[n], 1)]
        /\ issuing = Null /\ issuing' = n /\ n \in todo /\ Busy
        /\ UNCHANGED <<arrays, phase, todo>>
    BY <1>8 DEF IssuePair, Reached
  <2>2. \A x \in Pairs \ {n} : Raises(x)' => Raises(x)
    BY <1>0, <2>1 DEF Raises, Missing
  <2> QED
    BY <1>0, <2>1, <2>2 DEF TornInv, Busy, NamesIn
<1>9. CASE WriteOn
  <2>0. PICK n \in Pairs : n = issuing
    BY <1>0, <1>9 DEF WriteOn
  <2>1. /\ turn \in 1..3 /\ Busy /\ n \in todo
        /\ pair' = [pair EXCEPT ![n] = Written(pair[n], turn + 1)]
        /\ issuing' = (IF turn = 3 THEN Null ELSE n)
        /\ UNCHANGED <<arrays, phase, todo>>
    BY <1>0, <1>9, <2>0 DEF WriteOn, FilesOK, TornInv
  <2>2. \A x \in Pairs \ {n} : Raises(x)' => Raises(x)
    BY <1>0, <2>1 DEF Raises, Missing
  <2>3. ASSUME turn = 3 PROVE ~Raises(n)'
    <3>1. pair'[n] = Written(pair[n], 4)
      BY <1>0, <2>1, <2>3
    <3>2. pair'[n].key = "whole" /\ pair'[n].crt = "whole"
      BY <1>0, <2>0, <2>1, <2>3, <3>1, WrittenPair DEF FilesOK
    <3> QED
      BY <3>2 DEF Raises
  <2>4. \A x \in Pairs \ {n} : Raises(x) =>
          phase \in {"down", "boot"} /\ x \in NamesIn(arrays) \cup {Authority}
    BY <2>0 DEF TornInv
  <2>5. \A x \in Pairs : Raises(x)' =>
          \/ issuing' = x
          \/ (phase \in {"down", "boot"} /\ x \in NamesIn(arrays) \cup {Authority})'
    BY <2>1, <2>2, <2>3, <2>4 DEF NamesIn
  <2> QED
    BY <1>0, <2>1, <2>5 DEF TornInv, Busy
<1>10. ASSUME NEW n \in Names, GetOld(n) PROVE TornInv'
  <2>1. /\ pair' = [pair EXCEPT ![n] = [pair[n] EXCEPT !.expiring = TRUE]]
        /\ UNCHANGED <<issuing, arrays, phase, todo>> /\ pair[n] \in Pair
    BY <1>0, <1>10 DEF GetOld, tls, Pairs
  <2>2. \A x \in Pairs : pair'[x].key = pair[x].key /\ pair'[x].crt = pair[x].crt
    BY <1>0, <2>1 DEF Pair
  <2>3. \A x \in Pairs : Raises(x)' => Raises(x)
    BY <2>2 DEF Raises, Missing
  <2> QED
    BY <2>1, <2>3 DEF TornInv, Busy, NamesIn
<1>11. ASSUME NEW a \in Admins,
              \/ CreateArray(a) \/ UpdateArray(a) \/ DeleteArray(a) \/ SyncTls(a)
              \/ ReadArrays(a) \/ SwapRegistry(a)
       PROVE  TornInv'
  BY <1>3, <1>11 DEF CreateArray, UpdateArray, DeleteArray, SyncTls, ReadArrays, SwapRegistry,
                     Commit, stored, tls
<1>12. CASE Lifespan
  BY <1>3, <1>12 DEF Lifespan, stored
<1>13. CASE TimePasses \/ ReadVendor \/ LookupFails \/ FillCache
  BY <1>1, <1>13 DEF TimePasses, ReadVendor, LookupFails, FillCache, Serving, stored, tls
<1>14. CASE HitachiSession \/ WsapiCredential \/ AcceptJob
  BY <1>1, <1>14 DEF HitachiSession, WsapiCredential, AcceptJob, Done, Serving, stored, tls
<1>15. ASSUME NEW n \in Names, AskByHost(n) PROVE TornInv'
  BY <1>1, <1>15 DEF AskByHost, Serving, stored, tls
<1>16. ASSUME NEW v \in Stores, AskByPath(v) \/ RequireSession(v) \/ Answer(v)
       PROVE  TornInv'
  BY <1>1, <1>16 DEF AskByPath, RequireSession, Answer, Done, Serving, stored, tls
<1>17. CASE UNCHANGED vars
  BY <1>1, <1>17 DEF vars, stored, tls
<1> QED
  BY <1>4, <1>5, <1>6, <1>7, <1>8, <1>9, <1>10, <1>11, <1>12, <1>13, <1>14, <1>15, <1>16, <1>17
     DEF Next, Start

\* At first nothing is derived of the one array, and nobody refreshes.
LEMMA InitArrays == Init => ArraysOK /\ VhostInv /\ TornInv
<1> SUFFICES ASSUME Init PROVE ArraysOK /\ VhostInv /\ TornInv
  OBVIOUS
<1>1. [NoRows EXCEPT ![Default] = "generic"] \in Rows
  BY Constants, FrontDoorAssumption DEF Rows
<1>2. ArraysOK
  BY <1>1, Constants, FrontDoorAssumption DEF Init, ArraysOK, NoAdmins
<1>3. VhostInv
  BY DEF Init, VhostInv, VhostsCurrent, Busy, NoAdmins
<1>4. TornInv
  BY DEF Init, TornInv, NoPair, Raises, Missing
<1> QED
  BY <1>2, <1>3, <1>4

\* Between an administrator's requests the gateway answers to the arrays' names
\* and to no other ones, whatever crashed in between (api/arrays.py:48-66).
THEOREM VhostsAlwaysCurrent ==
  ASSUME OneAdmin
  PROVE  Spec => []VhostsCurrent
<1> DEFINE Inv == ArraysOK /\ FilesOK /\ VhostInv /\ TornInv
<1>1. Init => Inv
  BY InitArrays, InitFilesOK
<1>2. Inv /\ [Next]_vars => Inv'
  BY ArraysTyped, FilesStep, NextVhosts, NextTorn
<1>3. Inv => VhostsCurrent
  BY DEF VhostInv
<1> QED
  BY <1>1, <1>2, <1>3, PTL DEF Spec

-----------------------------------------------------------------------------
\* An answer x for vendor v, looked up at t: still right, or lost since, or the
\* lookup failed since.
Explained(v, x, t) ==
  x \in Answers(arrays, v) \/ (lost[v][x] # Null /\ lost[v][x] >= t)

\* What the cache holds is young, and was right when it was looked up, or the
\* lookup failed; so is what a client is about to store, unless it is too old to
\* be stored.
LookupInv ==
  /\ LookupsOK
  /\ \A v \in Stores : cache[v] # Null =>
       /\ cache[v].at <= now /\ Young(now, cache[v].at)
       /\ Explained(v, cache[v].found, cache[v].at)
  /\ \A v \in Stores, x \in Found : lost[v][x] # Null => lost[v][x] <= now
  /\ client.step \in {"read", "fill"} => client.at <= now
  /\ client.step = "fill" =>
       \/ Explained(client.vendor, client.found, client.at)
       \/ ~Young(now, client.at)

\* Of the stores' own steps only the clock's moves the clock.
LEMMA ClockStays ==
  ASSUME \/ CreateSession \/ CreateCredential \/ SubmitCompleted \/ Restart
         \/ \E i \in Sessions : DeleteSession(i) \/ DeleteCredential(i)
         \/ \E v \in Stores, i \in Sessions : Reject(v, i)
  PROVE  now' = now
BY DEF CreateSession, CreateCredential, SubmitCompleted, Restart, DeleteSession,
   DeleteCredential, Reject, Remove

\* The steps that look nothing up.
LEMMA LookupsStay ==
  ASSUME \/ Boot \/ Lifespan \/ WriteOn \/ SyncFails \/ BuildContexts
         \/ \E n \in Pairs : IssuePair(n)
         \/ \E n \in Names : GetOld(n)
         \/ \E a \in Admins : ReadArrays(a) \/ SwapRegistry(a)
  PROVE  UNCHANGED Lookups
<1>1. CASE Boot \/ Lifespan \/ WriteOn \/ SyncFails \/ BuildContexts
  BY <1>1 DEF Boot, Lifespan, WriteOn, SyncFails, BuildContexts, Lookups, stored, clientVars
<1>2. CASE (\E n \in Pairs : IssuePair(n)) \/ \E n \in Names : GetOld(n)
  BY <1>2 DEF IssuePair, GetOld, Lookups, stored, clientVars
<1>3. ASSUME NEW a \in Admins, ReadArrays(a) \/ SwapRegistry(a) PROVE UNCHANGED Lookups
  BY <1>3 DEF ReadArrays, SwapRegistry, Lookups, stored, clientVars
<1> QED
  BY <1>1, <1>2, <1>3

\* A client comes or goes, with nothing in hand.
LEMMA ClientMoves ==
  ASSUME LookupInv, UNCHANGED <<now, cache, lost, arrays>>,
         client' \in [step : ClientSteps, vendor : Stores \cup {Null}, at : Nat \cup {Null},
                      found : Found],
         client'.step \notin {"read", "fill"}
  PROVE  LookupInv'
BY DEF LookupInv, LookupsOK, Explained

\* Clients with nothing in hand.
LEMMA Visitors ==
  /\ Idle \in [step : ClientSteps, vendor : Stores \cup {Null}, at : Nat \cup {Null}, found : Found]
  /\ Idle.step = "idle"
  /\ \A v \in Stores :
       /\ To(v) \in [step : ClientSteps, vendor : Stores \cup {Null}, at : Nat \cup {Null},
                     found : Found]
       /\ To(v).step = "persona"
BY DEF Idle, To, ClientSteps, Found

\* Clients that come by host name, and a personality's answers.
LEMMA HostLookups ==
  ASSUME LookupInv,
         \/ \E n \in Names : AskByHost(n)
         \/ HitachiSession \/ WsapiCredential \/ AcceptJob
         \/ \E v \in Stores : RequireSession(v) \/ Answer(v)
  PROVE  LookupInv'
<1>1. UNCHANGED <<now, cache, lost, arrays>>
  BY ClockStays
     DEF AskByHost, HitachiSession, WsapiCredential, AcceptJob, RequireSession, Answer,
     Done, Serving, stored, clientVars
<1>2. CASE client' = Idle
  BY <1>1, <1>2, Visitors, ClientMoves
<1>3. CASE \E n \in Names : AskByHost(n)
  <2>1. \E v \in Stores : client' = To(v)
    BY <1>3 DEF AskByHost
  <2> QED
    BY <1>1, <2>1, Visitors, ClientMoves
<1>4. ASSUME NEW v \in Stores, client' = [client EXCEPT !.step = "work"]
      PROVE  LookupInv'
  <2>1. /\ client' \in [step : ClientSteps, vendor : Stores \cup {Null}, at : Nat \cup {Null},
                        found : Found]
        /\ client'.step = "work"
    BY <1>4 DEF LookupInv, LookupsOK, ClientSteps
  <2> QED
    BY <1>1, <2>1, ClientMoves
<1> QED
  BY <1>2, <1>3, <1>4
     DEF HitachiSession, WsapiCredential, AcceptJob, RequireSession, Answer, Done

\* A client that comes by path goes to what the cache says, or to look.
LEMMA AskByPathLookups ==
  ASSUME LookupInv, NEW v \in Stores, AskByPath(v)
  PROVE  LookupInv'
<1>1. UNCHANGED <<now, cache, lost, arrays>>
  BY DEF AskByPath, Serving, stored, clientVars
<1>2. CASE client' = To(v)
  BY <1>1, <1>2, Visitors, ClientMoves
<1>3. CASE client' = [Idle EXCEPT !.step = "read", !.vendor = v, !.at = now]
  <2>1. /\ client' \in [step : ClientSteps, vendor : Stores \cup {Null}, at : Nat \cup {Null},
                        found : Found]
        /\ client'.step = "read" /\ client'.vendor = v /\ client'.at = now
    BY <1>3 DEF Idle, LookupInv, LookupsOK, ClientSteps, Found
  <2> QED
    BY <1>1, <2>1 DEF LookupInv, LookupsOK, Explained
<1> QED
  BY <1>2, <1>3 DEF AskByPath

\* What the table says is right at that moment.
LEMMA ReadVendorLookups ==
  ASSUME LookupInv, ReadVendor
  PROVE  LookupInv'
<1>1. UNCHANGED <<now, cache, lost, arrays>> /\ client.step = "read"
  BY DEF ReadVendor, Serving, stored, clientVars
<1>2. PICK x \in Answers(arrays, client.vendor) :
        client' = [client EXCEPT !.step = "fill", !.found = x]
  BY DEF ReadVendor
<1>3. x \in Found
  BY DEF Answers, Found
<1>4. /\ client' \in [step : ClientSteps, vendor : Stores \cup {Null}, at : Nat \cup {Null},
                      found : Found]
      /\ client'.step = "fill" /\ client'.vendor = client.vendor /\ client'.at = client.at
      /\ client'.found = x
  BY <1>2, <1>3 DEF LookupInv, LookupsOK, ClientSteps
<1> QED
  BY <1>1, <1>2, <1>4 DEF LookupInv, LookupsOK, Explained

\* A lookup that fails is the excuse for the answer that there is none.
LEMMA LookupFailsLookups ==
  ASSUME LookupInv, LookupFails
  PROVE  LookupInv'
<1> DEFINE v == client.vendor
<1>1. /\ UNCHANGED <<now, cache, arrays>> /\ client.step = "read"
      /\ client' = [client EXCEPT !.step = "fill", !.found = Null]
      /\ lost' = [lost EXCEPT ![v][Null] = now]
  BY DEF LookupFails, stored, clientVars
<1>2. /\ v \in Stores /\ client.at \in Nat /\ client.at <= now /\ Null \in Found
      /\ now \in Nat /\ Null \notin Nat /\ lost \in [Stores -> [Found -> Nat \cup {Null}]]
  BY <1>1, ClientStateAssumption DEF LookupInv, LookupsOK, Found
<1>3. \A w \in Stores, x \in Found :
        lost'[w][x] = IF w = v /\ x = Null THEN now ELSE lost[w][x]
  BY <1>1, <1>2
<1>4. lost' \in [Stores -> [Found -> Nat \cup {Null}]]
  BY <1>1, <1>2
<1>5. /\ client' \in [step : ClientSteps, vendor : Stores \cup {Null}, at : Nat \cup {Null},
                      found : Found]
      /\ client'.step = "fill" /\ client'.vendor = v /\ client'.at = client.at
      /\ client'.found = Null
  BY <1>1, <1>2 DEF LookupInv, LookupsOK, ClientSteps
<1> HIDE DEF v
<1>6. ASSUME NEW w \in Stores, cache[w] # Null
      PROVE  Explained(w, cache[w].found, cache[w].at)'
  <2>1. /\ cache[w].found \in Found /\ cache[w].at \in Nat /\ cache[w].at <= now
        /\ Explained(w, cache[w].found, cache[w].at)
    BY <1>6 DEF LookupInv, LookupsOK
  <2> QED
    BY <1>1, <1>2, <1>3, <2>1 DEF Explained
<1>7. Explained(client.vendor, client.found, client.at)'
  BY <1>1, <1>2, <1>3, <1>5 DEF Explained
<1>8. \A w \in Stores, x \in Found : lost'[w][x] # Null => lost'[w][x] <= now
  BY <1>2, <1>3 DEF LookupInv
<1> QED
  BY <1>1, <1>2, <1>4, <1>5, <1>6, <1>7, <1>8 DEF LookupInv, LookupsOK

\* An answer is stored unless it is too old by now.
LEMMA FillCacheLookups ==
  ASSUME LookupInv, FillCache
  PROVE  LookupInv'
<1> DEFINE v == client.vendor
           entry == IF Young(now, Filled.at) THEN Filled ELSE Null
<1>1. /\ UNCHANGED <<now, lost, arrays>> /\ client.step = "fill"
      /\ cache' = [cache EXCEPT ![v] = entry]
  BY DEF FillCache, Serving, stored, clientVars
<1>2. v \in Stores /\ client.at \in Nat /\ client.found \in Found
  BY <1>1 DEF LookupInv, LookupsOK
<1>3. /\ Filled \in [found : Found, at : Nat]
      /\ Filled.found = client.found /\ Filled.at = client.at
  BY <1>2 DEF Filled
<1>4. entry # Null => /\ entry = Filled /\ Young(now, client.at)
                      /\ Explained(v, client.found, client.at)
  BY <1>1, <1>3 DEF LookupInv
<1>5. /\ client' \in [step : ClientSteps, vendor : Stores \cup {Null}, at : Nat \cup {Null},
                      found : Found]
      /\ client'.step \notin {"read", "fill"}
  BY <1>2, Visitors DEF FillCache
<1>6. /\ cache' \in [Stores -> [found : Found, at : Nat] \cup {Null}]
      /\ cache'[v] = entry /\ \A w \in Stores \ {v} : cache'[w] = cache[w]
  BY <1>1, <1>2, <1>3 DEF LookupInv, LookupsOK
<1> HIDE DEF entry, v
<1>7. \A w \in Stores : cache'[w] # Null =>
        /\ cache'[w].at <= now /\ Young(now, cache'[w].at)
        /\ Explained(w, cache'[w].found, cache'[w].at)
  BY <1>1, <1>3, <1>4, <1>6 DEF LookupInv
<1> QED
  BY <1>1, <1>5, <1>6, <1>7 DEF LookupInv, LookupsOK, Explained

\* A commit: whichever held answer it makes wrong is lost from now on.
LEMMA CommitLookups ==
  ASSUME LookupInv, NEW a \in Admins, NEW rows \in Rows, Commit(a, rows)
  PROVE  LookupInv'
<1>1. /\ UNCHANGED <<now, cache, client>> /\ arrays' = rows
      /\ lost' = [v \in Stores |-> [x \in Found |->
           IF x \in (Held(v) \cap Answers(arrays, v)) \ Answers(rows, v) THEN now ELSE lost[v][x]]]
  BY DEF Commit, clientVars, Found
<1>2. \A v \in Stores, x \in Found :
        lost'[v][x] = IF x \in (Held(v) \cap Answers(arrays, v)) \ Answers(rows, v)
                      THEN now ELSE lost[v][x]
  BY <1>1
<1>3. now \in Nat /\ Null \notin Nat /\ lost \in [Stores -> [Found -> Nat \cup {Null}]]
  BY ClientStateAssumption DEF LookupInv, LookupsOK
<1>4. lost' \in [Stores -> [Found -> Nat \cup {Null}]]
  BY <1>1, <1>3
<1>5. \A v \in Stores, x \in Found : lost'[v][x] # Null => lost'[v][x] <= now
  BY <1>2, <1>3 DEF LookupInv
<1>6. ASSUME NEW v \in Stores, NEW x \in Found, x \in Held(v), NEW t \in Nat, t <= now,
             Explained(v, x, t)
      PROVE  Explained(v, x, t)'
  BY <1>1, <1>2, <1>3, <1>6 DEF Explained
<1>7. ASSUME NEW v \in Stores, cache[v] # Null
      PROVE  /\ cache[v].at <= now /\ Young(now, cache[v].at)
             /\ Explained(v, cache[v].found, cache[v].at)'
  <2>1. /\ cache[v].found \in Found /\ cache[v].at \in Nat /\ cache[v].found \in Held(v)
        /\ Young(now, cache[v].at) /\ Explained(v, cache[v].found, cache[v].at)
        /\ cache[v].at <= now
    BY <1>7 DEF LookupInv, LookupsOK, Held
  <2>2. PICK x \in Found, t \in Nat : x = cache[v].found /\ t = cache[v].at
    BY <2>1
  <2>3. t <= now
    BY <2>1, <2>2
  <2>4. Explained(v, x, t)'
    BY <1>6, <2>1, <2>2, <2>3
  <2> QED
    BY <1>1, <2>1, <2>2, <2>4 DEF Explained
<1>8. client'.step = "fill" =>
        \/ Explained(client.vendor, client.found, client.at)'
        \/ ~Young(now, client.at)
  <2> SUFFICES ASSUME client.step = "fill", Young(now, client.at)
               PROVE  Explained(client.vendor, client.found, client.at)'
    BY <1>1
  <2>1. PICK v \in Stores, x \in Found, t \in Nat :
          v = client.vendor /\ x = client.found /\ t = client.at
    BY DEF LookupInv, LookupsOK
  <2>2. x \in Held(v) /\ t <= now /\ Explained(v, x, t)
    BY <2>1 DEF LookupInv, Held
  <2>3. Explained(v, x, t)'
    BY <1>6, <2>2
  <2> QED
    BY <1>1, <2>1, <2>3 DEF Explained
<1> QED
  BY <1>1, <1>4, <1>5, <1>7, <1>8 DEF LookupInv, LookupsOK

\* The clock: what is too old is dropped, entries no later than their excuses.
LEMMA TimePassesLookups ==
  ASSUME LookupInv, TimePasses
  PROVE  LookupInv'
<1>1. now \in Nat /\ CacheTtl \in Nat /\ Null \notin Nat
  BY ClientStateAssumption, FrontDoorAssumption DEF LookupInv, LookupsOK
<1>2. /\ now' = now + 1 /\ UNCHANGED <<client, arrays>>
      /\ cache' = [v \in Stores |->
           IF cache[v] # Null /\ ~Young(now', cache[v].at) THEN Null ELSE cache[v]]
      /\ lost' = [v \in Stores |-> [x \in Found |->
           IF lost[v][x] # Null /\ ~Young(now', lost[v][x]) THEN Null ELSE lost[v][x]]]
  BY DEF TimePasses, Tick, stored, Found
<1>3. /\ cache' \in [Stores -> [found : Found, at : Nat] \cup {Null}]
      /\ lost' \in [Stores -> [Found -> Nat \cup {Null}]]
  BY <1>2 DEF LookupInv, LookupsOK
<1>4. LookupsOK'
  BY <1>1, <1>2, <1>3 DEF LookupInv, LookupsOK
<1>5. \A v \in Stores, x \in Found :
        /\ lost[v][x] \in Nat \cup {Null}
        /\ lost[v][x] # Null => lost[v][x] <= now
        /\ lost'[v][x] = IF lost[v][x] # Null /\ ~Young(now', lost[v][x])
                         THEN Null ELSE lost[v][x]
  BY <1>2 DEF LookupInv, LookupsOK
<1>6. ASSUME NEW v \in Stores, NEW x \in Found, NEW t \in Nat, t <= now,
             Explained(v, x, t), Young(now', t)
      PROVE  Explained(v, x, t)'
  BY <1>1, <1>2, <1>5, <1>6 DEF Explained, Young
<1>7. ASSUME NEW v \in Stores, cache'[v] # Null
      PROVE  /\ (cache[v].at <= now)' /\ Young(now, cache[v].at)'
             /\ Explained(v, cache[v].found, cache[v].at)'
  <2>1. cache'[v] = cache[v] /\ cache[v] # Null /\ Young(now', cache[v].at)
    BY <1>2, <1>7
  <2>2. PICK x \in Found, t \in Nat : x = cache[v].found /\ t = cache[v].at
    BY <2>1 DEF LookupInv, LookupsOK
  <2>3. Explained(v, x, t) /\ Young(now, t)
    BY <2>1, <2>2 DEF LookupInv
  <2>4. t <= now
    BY <2>1, <2>2 DEF LookupInv
  <2>5. Explained(v, x, t)'
    BY <1>6, <2>1, <2>2, <2>3, <2>4
  <2> QED
    BY <1>1, <1>2, <2>1, <2>2, <2>4, <2>5 DEF Explained, Young
<1>8. \A v \in Stores, x \in Found : lost'[v][x] # Null => lost'[v][x] <= now'
  BY <1>1, <1>2, <1>5
<1>9. client'.step \in {"read", "fill"} => client'.at <= now'
  BY <1>1, <1>2 DEF LookupInv, LookupsOK
<1>10. ASSUME client.step = "fill"
       PROVE  Explained(client.vendor, client.found, client.at)' \/ ~Young(now', client.at)
  <2>1. PICK v \in Stores, x \in Found, t \in Nat :
          v = client.vendor /\ x = client.found /\ t = client.at
    BY <1>10 DEF LookupInv, LookupsOK
  <2>2. t <= now /\ (Explained(v, x, t) \/ ~Young(now, t))
    BY <1>10, <2>1 DEF LookupInv
  <2>3. ~Young(now, t) => ~Young(now', t)
    BY <1>1, <1>2 DEF Young
  <2>4. Explained(v, x, t)' \/ ~Young(now', t)
    BY <1>6, <2>2, <2>3
  <2>5. /\ client'.vendor = v /\ client'.found = x /\ client'.at = t
    BY <1>2, <2>1
  <2>6. ~Young(now', t) => ~Young(now', client'.at)
    BY <2>5
  <2>7. Explained(v, x, t)' => Explained(client.vendor, client.found, client.at)'
    BY <2>5 DEF Explained
  <2> QED
    BY <1>2, <2>4, <2>6, <2>7
<1> QED
  BY <1>2, <1>4, <1>7, <1>8, <1>9, <1>10 DEF LookupInv

\* LookupInv is inductive, given the types of the arrays.
LEMMA NextLookups ==
  ASSUME ArraysOK, LookupInv, [Next]_vars
  PROVE  LookupInv'
<1>1. ASSUME UNCHANGED Lookups PROVE LookupInv'
  BY <1>1 DEF Lookups, LookupInv, LookupsOK, Explained
<1>2. CASE Crash
  <2>1. client' = Idle /\ cache' = Forgotten /\ lost' = NoneLost /\ UNCHANGED <<now, arrays>>
    BY <1>2, ClockStays DEF Crash, stored
  <2> QED
    BY <2>1, Visitors DEF Forgotten, NoneLost, LookupInv, LookupsOK, Found
<1>3. ASSUME NEW a \in Admins,
             CreateArray(a) \/ UpdateArray(a) \/ DeleteArray(a) \/ SyncTls(a)
      PROVE  LookupInv'
  BY <1>3, CommitRows, CommitLookups DEF ArraysOK
<1>4. CASE UNCHANGED vars
  BY <1>1, <1>4 DEF vars, stored, clientVars, Lookups
<1> QED
  BY <1>1, <1>2, <1>3, <1>4, LookupsStay, HostLookups, AskByPathLookups, ReadVendorLookups,
     LookupFailsLookups, FillCacheLookups, TimePassesLookups DEF Next, Start

\* At first nothing is held.
LEMMA InitLookups == Init => LookupInv
<1> SUFFICES ASSUME Init PROVE LookupInv
  OBVIOUS
<1>1. LookupsOK
  BY Visitors DEF Init, ClientInit, LookupsOK, Forgotten, NoneLost, Found
<1> QED
  BY <1>1, Visitors DEF Init, Forgotten, NoneLost, LookupInv, Found

\* A path leads to an array that was of the vendor less than _ARRAY_CACHE_TTL
\* ago, and no answer that there is none stays longer than that after it stopped
\* being right or after the failed lookup that gave it, however long lookups take
\* and however often arrays change, for any number of arrays and administrators
\* (personality_dispatch.py:66-97).
THEOREM StaleAlwaysAtMostTtl == Spec => []StaleAtMostTtl
<1>1. ArraysOK /\ LookupInv /\ [Next]_vars => (ArraysOK /\ LookupInv)'
  BY ArraysTyped, NextLookups
<1>2. LookupInv => StaleAtMostTtl
  BY DEF LookupInv, Explained, StaleAtMostTtl
<1> QED
  BY InitArrays, InitLookups, <1>1, <1>2, PTL DEF Spec

\* The front door keeps its types.
THEOREM FrontDoorTyped == Spec => []TypeOK
<1>1. ArraysOK /\ LookupInv /\ FilesOK /\ [Next]_vars => (ArraysOK /\ LookupInv /\ FilesOK)'
  BY ArraysTyped, NextLookups, FilesStep
<1>2. ClientTypeOK /\ ArraysOK /\ LookupInv /\ FilesOK => TypeOK
  BY DEF TypeOK, ArraysOK, LookupInv, LookupsOK, FilesOK, Rows, Found, AdminSteps, ClientSteps
<1>3. Spec => []IInv
  BY ImplementsClientState, InitIInv, NextIInv, PTL DEF ClientSpec
<1>4. IInv => ClientTypeOK
  BY DEF IInv
<1> QED
  BY InitArrays, InitLookups, InitFilesOK, <1>1, <1>2, <1>3, <1>4, PTL DEF Spec
=============================================================================
