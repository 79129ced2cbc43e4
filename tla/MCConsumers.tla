----------------------------- MODULE MCConsumers -----------------------------
(***************************************************************************)
(* An instance of Chain for those who use responses.                       *)
(*                                                                         *)
(* In the first seconds, requests of two owners for overlapping times are  *)
(* posted, answered one by one or both at once, or taken back, with change *)
(* for an owner that is right, short or missing, by the owner or not, and  *)
(* with a validity interval that starts now or at the beginning of time.   *)
(*                                                                         *)
(* Around the half hour, coin is locked at the demo contract, and an       *)
(* oracle of the pool it trusts and one of another pool give responses     *)
(* that are good, bad, failed and outdated, beside outputs that resemble   *)
(* them.  The two never meet: messages and transactions of the one are     *)
(* not considered in the other.                                            *)
(***************************************************************************)
EXTENDS Chain

CONSTANTS
  SecondOwner,  \* whose the second request is
  MaxUTxOs      \* how many outputs a user's transaction may leave on chain

K1 == [pubKey |-> "k1", period |-> 2]
K2 == [pubKey |-> "k2", period |-> 3600]
Asked == PrivateAsset("operator", "asked")
Trusted == PrivateAsset("operator", "trusted")
Other == PrivateAsset("operator", "other")
Paid == PoolActionID(Asked, "a")

MCPools == {Asked, Trusted, Other}
MCWanted == PoolActionID(Trusted, "a")
MCBytes(item) == 26

RequestTimes == 0 .. 3
MCTimes == RequestTimes \cup {1000, 1800, 2800}

Message(item, signer) ==
  [action |-> "a", item |-> item, relayer |-> "relayer", signer |-> signer]
Item(t, error, value) == [timestamp |-> t, error |-> error, value |-> value]
Good(t) == Item(t, 0, 25000001)

RequestMessages == {Message(Item(t, 0, t), "k1") : t \in 1 .. 2}
UserMessages ==
  {Message(item, "k2") :
     item \in {Good(0), Item(0, 1, 25000001), Good(1000), Item(1000, 0, 25000000)}}
MCMessages == RequestMessages \cup UserMessages

Output(ref, addr, coin, tokens, datum) ==
  [ref |-> ref, addr |-> addr, coin |-> coin, tokens |-> tokens, datum |-> datum]

(* Among the demo's outputs, a wallet's with a good item, but no token.    *)
Oracle == Output("oracle", KeyAddr("operator"), 100, One(Asked), K1)
UserGenesis ==
  {Output("trusted", KeyAddr("operator"), 2, One(Trusted), K2),
   Output("other", KeyAddr("operator"), 2, One(Other), K2),
   Output("locked", UserAddr, 2, NoTokens, NoDatum),
   Output("lookalike", ResponseAddr, 2, NoTokens, Good(1000))}
MCGenesis == {Oracle} \cup UserGenesis

-----------------------------------------------------------------------------

RequestOf(owner, after, before) ==
  [action |-> "a", pool |-> Asked, poolActionID |-> Paid,
   after |-> after, before |-> before, owner |-> owner,
   reward |-> 5, coinPerByte |-> 1, maxCost |-> 310]

(* The cost of storing a response anew is 5 + 4 + 300, or 309: one less    *)
(* than the maximal cost, which a dearer fee exceeds.                      *)
Coin == 312
Fees == {4, 8}

Posted ==
  {Output("request of alice", RequestAddr, Coin, NoTokens, RequestOf("alice", 0, 1)),
   Output("second request", RequestAddr, Coin, NoTokens,
          RequestOf(SecondOwner, 1, 2))}

(* One response is answered anew, replaced, or answered beside another.    *)
FreshRefs(S) ==
  LET free == {r \in {"first", "second"} : \A u \in S : u.ref # r}
  IN  IF free = {} THEN {} ELSE {CHOOSE r \in free : TRUE}

Answers(S, msgs) ==
  {Output(r, ResponseAddr, 300, One(ResponseAsset(Paid)), m.item) :
     r \in FreshRefs(S), m \in msgs}

(* The change due for each fee, less than is due, and what is due when an  *)
(* old response's coin pays for the new one.                               *)
Change(owner) ==
  {Output(IF owner = "alice" THEN "change of alice" ELSE "change of bob",
          KeyAddr(owner), c, NoTokens, NoDatum) : c \in {1, 2, 3, 303}}

OutputSets(S, msgs) ==
  LET answers == Answers(S, msgs)
      changes == Change("alice") \cup Change("bob")
  IN  {{}} \cup {{o} : o \in Posted \cup answers \cup changes}
        \cup {{o, c} : o \in answers, c \in changes}
        \cup {{o, c, d} : o \in answers, c \in Change("alice"), d \in Change("bob")}

RequestTxs(S, time, msgs) ==
  [ins : {ins \in SUBSET (S \ MCGenesis) : Cardinality(ins) <= 2},
   refs : {{Oracle}}, outs : OutputSets(S, msgs),
   lo : {0, time}, hi : {time + 1},
   signers : {{"relayer"}, {"alice"}, {"bob"}}, fee : Fees]

-----------------------------------------------------------------------------

UserAnswers(ref, msgs) ==
  {Output(ref, ResponseAddr, 2, One(ResponseAsset(PoolActionID(pool, m.action))),
          m.item) : pool \in {Trusted, Other}, m \in msgs}

UserTxs(S, time, msgs) ==
  LET Visible == S \ {Oracle}
      Inputs == {u \in Visible : u.addr.kind = "script"}
      New == {ref \in {"user 1", "user 2", "user 3"} : \A u \in S : u.ref # ref}
      Outs == {{}} \cup {{o} : o \in UNION {UserAnswers(ref, msgs) : ref \in New}}
  IN  IF Cardinality(Visible) > MaxUTxOs THEN {}
      ELSE [ins : {ins \in SUBSET Inputs : Cardinality(ins) <= 1},
            refs : {refs \in SUBSET Visible : Cardinality(refs) <= 2},
            outs : Outs, lo : {time}, hi : {time + 1, 1800}, signers : {{"relayer"}},
            fee : {0}]

MCCandidates(S, time, msgs) ==
  (IF UserGenesis \subseteq S /\ msgs \subseteq RequestMessages /\ time \in RequestTimes
   THEN RequestTxs(S, time, msgs) ELSE {})
  \cup
  (IF (\A u \in S : u.addr # RequestAddr) /\ msgs \subseteq UserMessages
        /\ time \in {0, 1000, 1800, 2800}
   THEN UserTxs(S, time, msgs) ELSE {})
=============================================================================
