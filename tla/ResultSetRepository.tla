------------------------ MODULE ResultSetRepository -------------------------
(***************************************************************************)
(* result_set_repository (ResultSetRepository.cpp) with the threads that   *)
(* use it: the handlers of the protocol server (the services of            *)
(* testing-libgdf.cu) and the detached thread of each query                *)
(* (evaluate_query, CalciteInterpreter.cpp).  What the code does under     *)
(* repo_mutex is one step; what it reads of the maps without the mutex is  *)
(* a step of its own, because other threads run before the mutex is taken. *)
(*                                                                         *)
(* The clients are external: they send any request about a registered      *)
(* token, except for what the rules they keep forbid them.                 *)
(***************************************************************************)
EXTENDS Naturals, Sequences, FiniteSets

CONSTANTS
  Conn,       \* connection_id_t: the access tokens of the clients
  Token,      \* query_token_t: one per query, chosen by the orchestrator
  Handler,    \* threads of the protocol server
  Null,       \* no connection, no token
  Disciplines,\* the sets of rules the clients may keep, see Discipline
  MaxGets,    \* bound of the model: results of a token asked for and not freed
  RefModulus  \* ref_counter is a size_t: arithmetic modulo this number

(* own:      a request names a token its connection has registered         *)
(* serial:   a connection has one request in progress, and asks only for   *)
(*           the results of queries whose execution was acknowledged       *)
(* balanced: a result is freed only as often as it was returned            *)
Discipline == {"own", "serial", "balanced"}

ASSUME RulesAreKnown == Disciplines \subseteq SUBSET Discipline
ASSUME BoundsArePositive == MaxGets \in Nat \ {0} /\ RefModulus \in Nat
ASSUME RefHoldsGets == MaxGets < RefModulus
ASSUME NullIsNothing == Null \notin Conn \cup Token
ASSUME HandlersAreFinite == IsFiniteSet(Handler)

VARIABLES
  entries,    \* the keys of result_sets
  ready,      \* result_set_t::is_ready
  outcome,    \* result_frame and errorMsg: "none" of them, a "frame", an "error"
  ref,        \* result_set_t::ref_counter
  sessions,   \* the keys of connection_result_sets
  tokens,     \* the vectors of connection_result_sets
  memory,     \* the columns of the result of each query
  pc,         \* where each handler is
  job,        \* the connection and the token of the request it serves
  got,        \* the outcome it has copied out of result_sets
  query,      \* where the detached thread of each query is
  product,    \* what that thread passes to update_token
  crashed,    \* std::terminate was called
  owner,      \* the connection that registered each token
  held,       \* results returned to the clients and not freed by them yet
  failed,     \* references counted for replies that could not be made
  abandoned,  \* tokens freed, or whose connection was closed, before a result was stored
  disposed,   \* tokens free_result has erased
  rules       \* the rules the clients of this behaviour keep

resultSets == <<entries, ready, outcome, ref>>
handlers == <<pc, job, got>>
threads == <<query, product, crashed>>
ghosts == <<owner, held, failed, abandoned, disposed, rules>>
vars == <<resultSets, sessions, tokens, memory, handlers, threads, ghosts>>

Outcome == {"none", "frame", "error"}
InGet == {"find", "lock", "wait", "send"}
Ended == {"done", "never"}
Unstored == {"none", "never", "running", "checking", "storing"}

TypeOK ==
  /\ entries \subseteq Token
  /\ ready \in [Token -> BOOLEAN]
  /\ outcome \in [Token -> Outcome]
  /\ ref \in [Token -> 0 .. RefModulus - 1]
  /\ sessions \subseteq Conn
  /\ tokens \in [Conn -> Seq(Token)]
  /\ memory \in [Token -> {"none", "stored", "freed"}]
  /\ pc \in [Handler -> {"idle", "spawn"} \cup InGet]
  /\ job \in [Handler -> (Conn \cup {Null}) \X (Token \cup {Null})]
  /\ got \in [Handler -> Outcome]
  /\ query \in [Token -> {"none", "running", "checking", "storing", "notifying"} \cup Ended]
  /\ product \in [Token -> Outcome]
  /\ crashed \in BOOLEAN
  /\ owner \in [Token -> Conn \cup {Null}]
  /\ held \in [Token -> 0 .. MaxGets]
  /\ failed \in [Token -> 0 .. MaxGets]
  /\ abandoned \subseteq Token
  /\ disposed \subseteq Token
  /\ rules \in Disciplines

Init ==
  /\ entries = {} /\ sessions = {} /\ disposed = {} /\ abandoned = {}
  /\ ready = [t \in Token |-> FALSE]
  /\ outcome = [t \in Token |-> "none"]
  /\ ref = [t \in Token |-> 0]
  /\ tokens = [c \in Conn |-> <<>>]
  /\ memory = [t \in Token |-> "none"]
  /\ pc = [p \in Handler |-> "idle"]
  /\ job = [p \in Handler |-> <<Null, Null>>]
  /\ got = [p \in Handler |-> "none"]
  /\ query = [t \in Token |-> "none"]
  /\ product = [t \in Token |-> "none"]
  /\ crashed = FALSE
  /\ owner = [t \in Token |-> Null]
  /\ held = [t \in Token |-> 0]
  /\ failed = [t \in Token |-> 0]
  /\ rules \in Disciplines

-----------------------------------------------------------------------------
(* What a request may be.                                                  *)

connOf(p) == job[p][1]
tokenOf(p) == job[p][2]

(* The references that were counted and not given back ...                 *)
Kept(t) == held[t] + failed[t]

(* ... the handlers that serve a getResult for t, and those of them that   *)
(* have its outcome, and counted it.                                       *)
Getting(t) == {p \in Handler : pc[p] \in InGet /\ tokenOf(p) = t}
Sending(t) == {p \in Handler : pc[p] = "send" /\ tokenOf(p) = t}

(* Handler p takes a request of connection c.                              *)
Takes(p, c) ==
  /\ ~crashed
  /\ pc[p] = "idle"
  /\ "serial" \in rules => \A q \in Handler : pc[q] # "idle" => connOf(q) # c

(* The request is about token t.                                           *)
About(c, t) ==
  /\ owner[t] # Null
  /\ "own" \in rules => owner[t] = c

Reply(p) ==
  /\ pc' = [pc EXCEPT ![p] = "idle"]
  /\ job' = [job EXCEPT ![p] = <<Null, Null>>]
  /\ got' = [got EXCEPT ![p] = "none"]

(* The arithmetic of ref_counter.                                          *)

(* Mutant: get_result and the service that calls it both count.            *)
IncrementedTwice(r) == r + 2

Incremented(r) == (r + 1) % RefModulus

(* Mutant: the decrement is forgotten.                                     *)
DecrementForgotten(r) == r

Decremented(r) == (r + RefModulus - 1) % RefModulus
LastReference(t) == ref[t] = 1

(* Mutant: closing a connection ignores the references.                    *)
UnreferencedOrNot == entries

Unreferenced == {t \in Token : ref[t] = 0}

(* free_result for the tokens of F: an entry that is not in result_sets is *)
(* the one operator[] makes, with nothing in it.                           *)
free_results(F) ==
  /\ memory' = [t \in Token |->
       IF t \in F /\ outcome[t] = "frame" THEN "freed" ELSE memory[t]]
  /\ entries' = entries \ F
  /\ ready' = [t \in Token |-> ready[t] /\ t \notin F]
  /\ outcome' = [t \in Token |-> IF t \in F THEN "none" ELSE outcome[t]]
  /\ ref' = [t \in Token |-> IF t \in F THEN 0 ELSE ref[t]]
  /\ disposed' = disposed \cup F

(* std::remove of a token, which is in a vector once if at all: those      *)
(* behind it move one place down.                                          *)
Without(s, t) ==
  IF \E k \in DOMAIN s : s[k] = t
    THEN [i \in 1 .. Len(s) - 1 |->
           IF \E k \in 1 .. i : s[k] = t THEN s[i + 1] ELSE s[i]]
    ELSE s

-----------------------------------------------------------------------------
(* The requests of the protocol server.                                    *)

(* executeFileSystemPlanService: register_query, hence add_token ...       *)
ExecuteRegister(p, c, t) ==
  /\ Takes(p, c)
  /\ owner[t] = Null
  /\ entries' = entries \cup {t}
  /\ sessions' = sessions \cup {c}
  /\ tokens' = [tokens EXCEPT ![c] = Append(@, t)]
  /\ owner' = [owner EXCEPT ![t] = c]
  /\ pc' = [pc EXCEPT ![p] = "spawn"]
  /\ job' = [job EXCEPT ![p] = <<c, t>>]
  /\ UNCHANGED <<ready, outcome, ref, memory, got, threads, held, failed, abandoned, disposed,
                 rules>>

(* ... then evaluate_query starts the detached thread and the token is     *)
(* returned; or something throws before that and an error is returned.     *)
ExecuteSpawn(p) ==
  /\ ~crashed
  /\ pc[p] = "spawn"
  /\ \E s \in {"running", "never"} : query' = [query EXCEPT ![tokenOf(p)] = s]
  /\ Reply(p)
  /\ UNCHANGED <<resultSets, sessions, tokens, memory, product, crashed, ghosts>>

(* get_result looks for the connection, then for the token, without the    *)
(* mutex.  A connection that is not found is an error reply and no step.   *)
GetFindConnection(p, c, t) ==
  /\ Takes(p, c) /\ About(c, t)
  /\ "serial" \in rules => query[t] \notin {"none", "never"}
  /\ Kept(t) + Cardinality(Getting(t)) < MaxGets
  /\ c \in sessions
  /\ pc' = [pc EXCEPT ![p] = "find"]
  /\ job' = [job EXCEPT ![p] = <<c, t>>]
  /\ UNCHANGED <<resultSets, sessions, tokens, memory, got, threads, ghosts>>

GetFindToken(p) ==
  /\ ~crashed
  /\ pc[p] = "find"
  /\ IF tokenOf(p) \in entries
       THEN pc' = [pc EXCEPT ![p] = "lock"] /\ UNCHANGED <<job, got>>
       ELSE Reply(p)
  /\ UNCHANGED <<resultSets, sessions, tokens, memory, threads, ghosts>>

(* With the mutex: the predicate of cv.wait reads result_sets[token], which *)
(* makes an entry if there is none any more, and either the thread waits or *)
(* it counts one reference and copies the entry.                           *)

(* Mutant: waits until there is an entry, ready or not.                    *)
PredicateExists(t) == t \in entries

Predicate(t) == ready[t]

GetLock(p) ==
  LET t == tokenOf(p) IN
  /\ ~crashed
  /\ pc[p] = "lock"
  /\ entries' = entries \cup {t}
  /\ IF Predicate(t)
       THEN /\ ref' = [ref EXCEPT ![t] = Incremented(@)]
            /\ got' = [got EXCEPT ![p] = outcome[t]]
            /\ pc' = [pc EXCEPT ![p] = "send"]
       ELSE /\ pc' = [pc EXCEPT ![p] = "wait"]
            /\ UNCHANGED <<ref, got>>
  /\ UNCHANGED <<ready, outcome, sessions, tokens, memory, job, threads, ghosts>>

(* A condition variable may wake up by itself.                             *)
SpuriousWakeup(p) ==
  /\ ~crashed
  /\ pc[p] = "wait"
  /\ pc' = [pc EXCEPT ![p] = "lock"]
  /\ UNCHANGED <<resultSets, sessions, tokens, memory, job, got, threads, ghosts>>

(* getResultService makes the reply: it reads the columns of the copy ...  *)
GetRespond(p) ==
  /\ ~crashed
  /\ pc[p] = "send"
  /\ held' = [held EXCEPT ![tokenOf(p)] = @ + 1]
  /\ Reply(p)
  /\ UNCHANGED <<resultSets, sessions, tokens, memory, threads, owner, failed, abandoned,
                 disposed, rules>>

(* ... or that throws, and the client gets an error: it does not have the  *)
(* result, but the reference stays counted.                                *)
GetFails(p) ==
  /\ ~crashed
  /\ pc[p] = "send"
  /\ failed' = [failed EXCEPT ![tokenOf(p)] = @ + 1]
  /\ Reply(p)
  /\ UNCHANGED <<resultSets, sessions, tokens, memory, threads, owner, held, abandoned,
                 disposed, rules>>

(* try_free_result, all of it with the mutex.  A connection or a token     *)
(* that is not found is an error reply and no step.                        *)
TryFree(p, c, t) ==
  /\ Takes(p, c) /\ About(c, t)
  /\ "balanced" \in rules => held[t] > 0
  /\ c \in sessions /\ t \in entries
  /\ held' = [held EXCEPT ![t] = IF @ > 0 THEN @ - 1 ELSE 0]
  /\ IF LastReference(t)
       THEN /\ free_results({t})
            /\ tokens' = [tokens EXCEPT ![c] = Without(@, t)]
       ELSE /\ ref' = [ref EXCEPT ![t] = Decremented(@)]
            /\ UNCHANGED <<entries, ready, outcome, memory, tokens, disposed>>
  /\ abandoned' = abandoned \cup {u \in {t} : query[u] \in Unstored}
  /\ UNCHANGED <<sessions, handlers, threads, owner, failed, rules>>

(* The tokens remove_all_connection_tokens meets: its loop walks by address *)
(* over the n places of the vector s while free_result erases from it, and *)
(* std::remove has moved the rest one place down at each erasure (the      *)
(* places past the new end keep the last token).                           *)
Place(i, moved, n) == IF i + moved < n THEN i + moved ELSE n

(* Mutant: it goes over the results of every connection.                   *)
VisitedEverything(s, unreferenced) == Token

Visited(s, unreferenced) ==
  LET n == Len(s)
      moved[i \in 0 .. n] ==
        IF i = 0 THEN 0
        ELSE moved[i - 1] + IF s[Place(i, moved[i - 1], n)] \in unreferenced THEN 1 ELSE 0
      met == {k \in 1 .. n : \E i \in 1 .. n : k = Place(i, moved[i - 1], n)}
  IN {s[k] : k \in met}

(* closeConnectionService: remove_all_connection_tokens with the mutex.    *)
Close(p, c) ==
  /\ Takes(p, c)
  /\ c \in sessions
  /\ free_results(Visited(tokens[c], Unreferenced) \cap Unreferenced)
  /\ sessions' = sessions \ {c}
  /\ tokens' = [tokens EXCEPT ![c] = <<>>]
  /\ abandoned' = abandoned \cup {t \in Token : owner[t] = c /\ query[t] \in Unstored}
  /\ UNCHANGED <<handlers, threads, owner, held, failed, rules>>

-----------------------------------------------------------------------------
(* The detached thread of query t.                                         *)

(* evaluate_split_query returns a frame, or throws and the handler of the  *)
(* exception calls update_token with an error.                             *)
QueryEnds(t) ==
  /\ ~crashed
  /\ query[t] = "running"
  /\ query' = [query EXCEPT ![t] = "checking"]
  /\ \E o \in {"frame", "error"} : product' = [product EXCEPT ![t] = o]
  /\ UNCHANGED <<resultSets, sessions, tokens, memory, handlers, crashed, ghosts>>

(* update_token looks for the entry without the mutex.  What it throws is  *)
(* caught once; thrown from the handler of the exception it ends the       *)
(* process.                                                                *)
UpdateCheck(t) ==
  /\ ~crashed
  /\ query[t] = "checking"
  /\ IF t \in entries
       THEN query' = [query EXCEPT ![t] = "storing"] /\ UNCHANGED <<product, crashed>>
       ELSE /\ crashed' = (product[t] = "error")
            /\ product' = [product EXCEPT ![t] = "error"]
            /\ UNCHANGED query
  /\ UNCHANGED <<resultSets, sessions, tokens, memory, handlers, ghosts>>

(* Mutant: something throws after the result was stored.                   *)
UpdateThrowsLate(t) ==
  /\ ~crashed
  /\ query[t] \in {"storing", "notifying"} /\ product[t] = "frame"
  /\ query' = [query EXCEPT ![t] = "checking"]
  /\ product' = [product EXCEPT ![t] = "error"]
  /\ UNCHANGED <<resultSets, sessions, tokens, memory, handlers, crashed, ghosts>>

(* The conversion of a column throws.                                      *)
UpdateThrows(t) ==
  /\ ~crashed
  /\ query[t] = "storing" /\ product[t] = "frame"
  /\ query' = [query EXCEPT ![t] = "checking"]
  /\ product' = [product EXCEPT ![t] = "error"]
  /\ UNCHANGED <<resultSets, sessions, tokens, memory, handlers, crashed, ghosts>>

(* With the mutex: the entry is replaced, or made again.                   *)
UpdateStore(t) ==
  /\ ~crashed
  /\ query[t] = "storing"
  /\ entries' = entries \cup {t}
  /\ ready' = [ready EXCEPT ![t] = TRUE]
  /\ outcome' = [outcome EXCEPT ![t] = product[t]]
  /\ ref' = [ref EXCEPT ![t] = 0]
  /\ memory' = [memory EXCEPT ![t] = IF product[t] = "frame" THEN "stored" ELSE @]
  /\ query' = [query EXCEPT ![t] = "notifying"]
  /\ abandoned' = abandoned \ {t}
  /\ UNCHANGED <<sessions, tokens, handlers, product, crashed, owner, held, failed, disposed,
                 rules>>

(* cv.notify_all, after the mutex is released; the thread ends.            *)

(* Mutants: notify_one; no notification.                                   *)
NotifiedOne(p) == pc[p] = "wait" /\ p = CHOOSE q \in Handler : pc[q] = "wait"
NotifiedNone(p) == FALSE

Notified(p) == pc[p] = "wait"

UpdateNotify(t) ==
  /\ ~crashed
  /\ query[t] = "notifying"
  /\ pc' = [p \in Handler |-> IF Notified(p) THEN "lock" ELSE pc[p]]
  /\ query' = [query EXCEPT ![t] = "done"]
  /\ UNCHANGED <<resultSets, sessions, tokens, memory, job, got, product, crashed, ghosts>>

Next ==
  \/ \E p \in Handler, c \in Conn, t \in Token : ExecuteRegister(p, c, t)
  \/ \E p \in Handler : ExecuteSpawn(p)
  \/ \E p \in Handler, c \in Conn, t \in Token : GetFindConnection(p, c, t)
  \/ \E p \in Handler : GetFindToken(p)
  \/ \E p \in Handler : GetLock(p)
  \/ \E p \in Handler : SpuriousWakeup(p)
  \/ \E p \in Handler : GetRespond(p)
  \/ \E p \in Handler : GetFails(p)
  \/ \E p \in Handler, c \in Conn, t \in Token : TryFree(p, c, t)
  \/ \E p \in Handler, c \in Conn : Close(p, c)
  \/ \E t \in Token : QueryEnds(t)
  \/ \E t \in Token : UpdateCheck(t)
  \/ \E t \in Token : UpdateThrows(t)
  \/ \E t \in Token : UpdateStore(t)
  \/ \E t \in Token : UpdateNotify(t)

Spec == Init /\ [][Next]_vars

(* A thread that can run does run: every query ends, every handler goes on *)
(* with its request.  Nothing makes a client send a request, nor a         *)
(* condition variable wake up by itself.                                   *)
HandlerStep(p) ==
  ExecuteSpawn(p) \/ GetFindToken(p) \/ GetLock(p) \/ GetRespond(p) \/ GetFails(p)

QueryStep(t) == QueryEnds(t) \/ UpdateCheck(t) \/ UpdateStore(t) \/ UpdateNotify(t)

Fairness ==
  /\ \A p \in Handler : WF_vars(HandlerStep(p))
  /\ \A t \in Token : WF_vars(QueryStep(t))

FairSpec == Spec /\ Fairness

-----------------------------------------------------------------------------
(* What clients that keep no rule at all can rely on.                      *)

(* A reply to getResult carries what the query of that token produced:     *)
(* never the default entry that operator[] makes, nor half an update.      *)
ReturnsTheOutcome ==
  \A p \in Handler : pc[p] = "send" =>
    got[p] # "none" /\ got[p] = product[tokenOf(p)]

(* No wakeup is lost: a handler of get_result that waits for a result that *)
(* is ready is about to be notified (cv.wait under repo_mutex, notify_all  *)
(* after the update).                                                      *)
NoLostWakeup ==
  \A p \in Handler :
    pc[p] = "wait" /\ ready[tokenOf(p)] => \E t \in Token : query[t] = "notifying"

(* A client that frees nothing and closes nothing too early is safe from   *)
(* what the others do: update_token throws out of the exception handler of *)
(* a detached thread (evaluate_query), which ends the process, only when   *)
(* the connection of that very query was closed, or its token freed, while *)
(* the query ran.                                                          *)
AbortsIfAbandoned ==
  crashed => \E t \in abandoned : query[t] = "checking" /\ product[t] = "error"

(* What clients that free as often as they get can rely on.                *)
Balanced == "balanced" \in rules

(* try_free_result and remove_all_connection_tokens never free the columns *)
(* of a result that a client has and did not give back, or that a handler  *)
(* is still reading to make a reply.                                       *)
HeldNotFreed ==
  Balanced =>
    \A t \in Token : (held[t] > 0 \/ Sending(t) # {}) => memory[t] # "freed"

(* The invariant behind it: ref_counter of a ready entry counts the        *)
(* results returned and not freed, those being returned, and those whose   *)
(* reply failed, which nobody can give back.                               *)
Holders(t) == Kept(t) + Cardinality(Sending(t))

RefExact ==
  Balanced => \A t \in Token : ref[t] = IF ready[t] THEN Holders(t) ELSE 0

(* What clients that ask only for their own results, one request after the *)
(* other, can rely on.                                                     *)

(* Every getResult is answered, unless the process ends.                   *)
GetAnswered ==
  {"own", "serial"} \subseteq rules =>
    \A p \in Handler : pc[p] \in InGet ~> pc[p] = "idle" \/ crashed

(* What remove_all_connection_tokens is named for: of the results that the  *)
(* vector of the connection names, none that nobody holds stays behind.    *)
ClosedIsEmpty ==
  [][\A c \in sessions \ sessions' : \A t \in entries' :
       (\E k \in DOMAIN tokens[c] : tokens[c][k] = t) /\ ready[t] => ref'[t] > 0]_vars

(* Each result of balanced clients lives as ResultLifecycle says (nothing  *)
(* is claimed of the others: they map to a lifecycle that never begins).   *)
Stage(t) ==
  IF owner[t] = Null \/ ~Balanced THEN "none"
  ELSE IF ready[t] THEN "ready"
  ELSE IF t \notin disposed THEN "pending"
  ELSE IF query[t] \in Unstored THEN "dropped" ELSE "gone"

Result(t) == IF Balanced THEN outcome[t] ELSE "none"

Lifecycle == INSTANCE ResultLifecycle WITH
  stage <- [t \in Token |-> Stage(t)],
  result <- [t \in Token |-> Result(t)],
  holders <- [t \in Token |-> IF Balanced THEN Holders(t) ELSE 0]

LifecycleHolds == Lifecycle!Spec
=============================================================================
