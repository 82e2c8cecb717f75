--------------------- MODULE KisLiveTradingClient_proofs ---------------------
(* The paper and the live client for any number of callers, pages, mutations    *)
(* and generations of the order history: no history older than what was         *)
(* reported when it was asked for, no mutation sent twice.                      *)
EXTENDS KisLiveTradingClient, FiniteSetTheorems, TLAPS

Stages == {"free", "ready", "joined", "token", "queued", "sent", "pause", "answered"}
Shown == Nat \cup {Uncached}
Call == [op : Operations, stage : Stages, on : Callers \cup {None}, pages : Nat, retried : BOOLEAN,
         posts : Nat, asOf : Shown, begun : Nat, generation : Nat]

TypeOK ==
    /\ call \in [Callers -> Call]
    /\ queue \in Seq(Callers)
    /\ token \in Tokens
    /\ history \in [cache : Shown, request : Callers \cup {None}, generation : Nat]
    /\ balance \in [cache : Shown, request : Callers \cup {None}]
    /\ accepted \in 0..MaxPosts /\ reported \in 0..accepted

Busy == {"ready", "token", "queued", "sent", "pause"}

(* Who waits, waits for a caller whose fetch runs and is of the same kind, and  *)
(* posts nothing; a busy caller that waits for nobody posts.                    *)
WaitKept(w) ==
    /\ call[w].on = None /\ call[w].stage \in Busy => call[w].op \in {"submit", "cancel"}
    /\ call[w].on # None =>
         /\ call[w].op # "submit"
         /\ call[w].stage \in IF call[w].on = w THEN Busy ELSE {"joined"}
         /\ call[call[w].on].on = call[w].on
         /\ (call[w].op = "balance") = (call[call[w].on].op = "balance")

Waits == \A w \in Callers : WaitKept(w)

(* The requests under way are fetches of their kind; that of the history is of  *)
(* the generation that counts.                                                  *)
Entries ==
    /\ balance.request # None =>
         /\ call[balance.request].on = balance.request
         /\ call[balance.request].op = "balance"
    /\ history.request # None =>
         /\ call[history.request].on = history.request
         /\ call[history.request].op # "balance"
         /\ call[history.request].generation = history.generation

(* The pages a fetch has read are as new as what was reported when any of those *)
(* who wait for it began; a fetch of the generation that counts, and the cache, *)
(* as what is reported now.                                                     *)
ReadKept(w) ==
    /\ call[w].begun <= reported
    /\ call[w].on = w =>
         /\ call[w].asOf \in Nat
         /\ call[w].op # "balance" =>
              /\ call[w].generation <= history.generation
              /\ call[w].generation = history.generation => reported <= call[w].asOf
    /\ call[w].on # None /\ call[w].op # "balance" => call[w].begun <= call[call[w].on].asOf

Reads ==
    /\ history.cache # Uncached => reported <= history.cache
    /\ \A w \in Callers : ReadKept(w)

(* A caller is in the queue once, and only while its request waits; the one     *)
(* post of a caller is the one under way.                                       *)
Turns ==
    /\ \A i \in DOMAIN queue : call[queue[i]].stage = "queued"
    /\ \A i, j \in DOMAIN queue : i # j => queue[i] # queue[j]
    /\ \A c \in Callers : call[c].posts = IF call[c].stage = "sent" /\ Posting(c) THEN 1 ELSE 0

ClientInv == TypeOK /\ Waits /\ Entries /\ Reads /\ Turns /\ FreshHistory

-----------------------------------------------------------------------------
(* What becomes of a caller whose fetch or post is over: it is answered, or its *)
(* cancel goes on to post, with nothing older than what it may see.             *)
Outcome(k, n) ==
    /\ n \in Call
    /\ n.op = k.op /\ n.begun = k.begun /\ n.on = None /\ n.posts = 0
    /\ n.stage = "answered" \/ (n.stage = "ready" /\ n.op = "cancel")
    /\ k.on = None \/ k.op = "balance" \/ n.asOf = Uncached \/ k.begun <= n.asOf
    /\ k.on = None => n.stage = "answered" /\ k.op # "history"

LEMMA EndedIs ==
    ASSUME NEW k \in Call, NEW a \in Shown
    PROVE  /\ Ended(k, a) \in Call
           /\ Ended(k, a).op = k.op /\ Ended(k, a).begun = k.begun
           /\ Ended(k, a).stage = "answered" /\ Ended(k, a).asOf = a
           /\ Ended(k, a).on = None /\ Ended(k, a).posts = 0
BY DEF Ended, Free, Call, Shown, Uncached, Operations, Stages

LEMMA BegunIs ==
    ASSUME TypeOK, NEW op \in Operations
    PROVE  /\ Begun(op) \in Call
           /\ Begun(op).op = op /\ Begun(op).stage = "ready" /\ Begun(op).on = None
           /\ Begun(op).posts = 0 /\ Begun(op).asOf = MaxPosts
           /\ Begun(op).begun = IF op = "submit" THEN 0 ELSE reported
<1> DEFINE b == IF op = "submit" THEN 0 ELSE reported
<1>1. b \in Nat /\ MaxPosts \in Nat
    BY ClientAssumption DEF TypeOK
<1>2. Free \in Call /\ Free.posts = 0 /\ Free.on = None
    BY DEF Free, Call, Shown, Operations, Stages
<1>3. Begun(op) = [Free EXCEPT !.op = op, !.stage = "ready", !.asOf = MaxPosts, !.begun = b]
    BY Zenon DEF Begun
<1> HIDE DEF b
<1>4. /\ Begun(op) \in Call /\ Begun(op).begun = b
      /\ Begun(op).op = op /\ Begun(op).stage = "ready" /\ Begun(op).on = None
      /\ Begun(op).posts = 0 /\ Begun(op).asOf = MaxPosts
    BY <1>1, <1>2, <1>3 DEF Call, Shown, Stages
<1> QED
    BY <1>4 DEF b

(* A waiting caller that ends, with what the fetch shows or with its failure.   *)
LEMMA EndedOutcome ==
    ASSUME NEW k \in Call, NEW a \in Shown,
           k.on = None => k.op # "history",
           k.on = None \/ k.op = "balance" \/ a = Uncached \/ k.begun <= a
    PROVE  Outcome(k, Ended(k, a))
BY EndedIs DEF Outcome

LEMMA CheckedOutcome ==
    ASSUME NEW k \in Call, NEW a \in Nat, k.on # None, k.posts = 0,
           k.op = "balance" \/ k.begun <= a,
           NEW n \in Checked(k, a)
    PROVE  Outcome(k, n)
<1>1. a \in Shown
    BY DEF Shown
<1>2. CASE n = Ended(k, a)
    BY <1>1, <1>2, EndedOutcome
<1>3. CASE k.op = "cancel" /\ n = [k EXCEPT !.stage = "ready", !.asOf = a, !.on = None]
    <2>1. n \in Call
        BY <1>1, <1>3 DEF Call, Stages
    <2>2. n.op = "cancel" /\ n.begun = k.begun /\ n.on = None /\ n.posts = 0
          /\ n.stage = "ready" /\ n.asOf = a
        BY <1>3 DEF Call
    <2> QED
        BY <1>3, <2>1, <2>2 DEF Outcome
<1> QED
    BY <1>2, <1>3 DEF Checked

-----------------------------------------------------------------------------
(* What every state gives about one caller.                                     *)
LEMMA CallerFacts ==
    ASSUME ClientInv, NEW w \in Callers
    PROVE  /\ None \notin Callers /\ call[w] \in Call
           /\ WaitKept(w) /\ ReadKept(w)
           /\ call[w].on \in Callers \cup {None}
           /\ reported \in Nat /\ accepted \in Nat /\ reported <= accepted
           /\ accepted <= MaxPosts /\ MaxPosts \in Nat
BY ClientAssumption DEF ClientInv, TypeOK, Waits, Reads, Call

(* Fetches and posts that end, those of D, with all who wait for them.          *)
Over(D, w) == w \in D \/ call[w].on \in D

(* A step that is no beginning: who waits goes on waiting for the same fetch, or *)
(* for none.                                                                    *)
Steady ==
    /\ balance.request = None => balance'.request = None
    /\ \A w \in Callers :
          call'[w].op = call[w].op /\ call'[w].on \in {None, call[w].on}

LEMMA EndsKeep ==
    ASSUME ClientInv, TypeOK', NEW D \in SUBSET Callers,
           \A w \in D : call[w].stage \in {"ready", "token", "sent"},
           \A w \in Callers : Over(D, w) => Outcome(call[w], call'[w]),
           \A w \in Callers : ~Over(D, w) => call'[w] = call[w],
           balance'.request # None => balance'.request = balance.request /\ balance.request \notin D,
           history'.request # None => history'.request = history.request /\ history.request \notin D,
           history'.generation = history.generation,
           history'.cache = history.cache \/ history'.cache = Uncached \/ reported <= history'.cache,
           queue' = queue, reported' = reported
    PROVE  ClientInv' /\ Steady
<1>1. ASSUME NEW w \in Callers, ~Over(D, w)
      PROVE  /\ call'[w] = call[w]
             /\ call[w].on # None =>
                  call[w].on \in Callers /\ call'[call[w].on] = call[call[w].on]
    <2>1. call'[w] = call[w]
        BY <1>1
    <2>2. ASSUME call[w].on # None
          PROVE  call[w].on \in Callers /\ call'[call[w].on] = call[call[w].on]
        <3>1. call[w].on \in Callers /\ call[call[w].on].on = call[w].on
            BY <2>2, CallerFacts DEF WaitKept
        <3>2. ~Over(D, call[w].on)
            BY <1>1, <3>1 DEF Over
        <3> QED
            BY <3>1, <3>2
    <2> QED
        BY <2>1, <2>2
<1>2. ASSUME NEW w \in Callers
      PROVE  WaitKept(w)'
    <2>1. CASE Over(D, w)
        BY <2>1 DEF Outcome, WaitKept, Busy
    <2>2. CASE ~Over(D, w)
        BY <1>1, <2>2, CallerFacts DEF WaitKept
    <2> QED
        BY <2>1, <2>2
<1>3. ASSUME NEW w \in Callers
      PROVE  ReadKept(w)'
    <2>1. CASE Over(D, w)
        BY <2>1, CallerFacts DEF Outcome, ReadKept
    <2>2. CASE ~Over(D, w)
        BY <1>1, <2>2, CallerFacts DEF ReadKept
    <2> QED
        BY <2>1, <2>2
<1>4. history'.cache # Uncached => reported' <= history'.cache
    BY DEF ClientInv, Reads
<1>5. Entries'
    <2>1. ASSUME NEW d \in Callers, call[d].on = d, d \notin D
          PROVE  call'[d] = call[d]
        BY <2>1 DEF Over
    <2> QED
        BY <2>1 DEF ClientInv, Entries, TypeOK
<1>6. ASSUME NEW w \in Callers
      PROVE  /\ call'[w].posts = IF call'[w].stage = "sent" /\ Posting(w)' THEN 1 ELSE 0
             /\ call[w].stage = "queued" => call'[w].stage = "queued"
    <2>1. CASE Over(D, w)
        <3>1. call[w].stage # "queued"
            BY <2>1, CallerFacts DEF Over, WaitKept
        <3> QED
            BY <2>1, <3>1 DEF Outcome
    <2>2. CASE ~Over(D, w)
        BY <2>2 DEF ClientInv, Turns, Posting
    <2> QED
        BY <2>1, <2>2
<1>7. Turns'
    BY <1>6 DEF ClientInv, Turns, TypeOK
<1>8. FreshHistory'
    <2> SUFFICES ASSUME NEW w \in Callers,
                        \/ call'[w].op = "history" /\ call'[w].stage = "answered"
                        \/ call'[w].op = "cancel" /\ call'[w].stage = "ready" /\ call'[w].on = None
                 PROVE  call'[w].asOf = Uncached \/ call'[w].asOf >= call'[w].begun
        BY DEF FreshHistory
    <2>1. CASE Over(D, w)
        BY <2>1, CallerFacts DEF Outcome, Call, Shown, Uncached
    <2>2. CASE ~Over(D, w)
        BY <2>2 DEF ClientInv, FreshHistory
    <2> QED
        BY <2>1, <2>2
<1>9. Steady
    BY DEF Outcome, Steady
<1> QED
    BY <1>9, <1>2, <1>3, <1>4, <1>5, <1>7, <1>8 DEF ClientInv, Waits, Reads

(* Callers that only move on: to the token, to the queue, to the next page.     *)
LEMMA MovesKeep ==
    ASSUME ClientInv,
           \A w \in Callers :
              /\ call'[w].op = call[w].op /\ call'[w].on = call[w].on
              /\ call'[w].begun = call[w].begun /\ call'[w].generation = call[w].generation
              /\ call'[w].stage # call[w].stage => {call[w].stage, call'[w].stage} \subseteq Busy
              /\ call'[w].stage = "ready" => call[w].stage = "ready" \/ call[w].on # None
              /\ \/ call'[w].asOf = call[w].asOf
                 \/ /\ call[w].on = w /\ call'[w].asOf \in Nat
                    /\ call[w].asOf <= call'[w].asOf \/ reported <= call'[w].asOf,
           history' = history, balance' = balance, reported' = reported
    PROVE  Waits' /\ Entries' /\ Reads' /\ FreshHistory' /\ Steady
<1>1. ASSUME NEW w \in Callers
      PROVE  WaitKept(w)'
    <2>1. call[w].on # None => call[w].on \in Callers
        BY CallerFacts
    <2>2. call'[w].stage \in Busy <=> call[w].stage \in Busy
        BY DEF Busy
    <2>3. call[w].stage = "joined" => call'[w].stage = "joined"
        BY DEF Busy
    <2> QED
        BY <2>1, <2>2, <2>3, CallerFacts DEF WaitKept
<1>2. ASSUME NEW w \in Callers
      PROVE  ReadKept(w)'
    <2>1. ReadKept(w) /\ WaitKept(w) /\ call[w] \in Call /\ reported \in Nat /\ None \notin Callers
        BY CallerFacts
    <2>2. call[w].on = w =>
            /\ call'[w].asOf \in Nat
            /\ call[w].asOf \in Nat
            /\ call[w].asOf <= call'[w].asOf \/ reported <= call'[w].asOf
        BY <2>1 DEF ReadKept
    <2>3. ASSUME call[w].on # None
          PROVE  LET d == call[w].on
                 IN  /\ d \in Callers
                     /\ call[d].asOf \in Nat /\ call'[d].asOf \in Nat
                     /\ call[d].asOf <= call'[d].asOf \/ reported <= call'[d].asOf
        <3> DEFINE d == call[w].on
        <3>1. d \in Callers /\ call[d].on = d
            BY <2>1, <2>3, CallerFacts DEF WaitKept
        <3> HIDE DEF d
        <3>2. ReadKept(d) /\ None \notin Callers
            BY <3>1, CallerFacts
        <3>3. call[d].asOf \in Nat
            BY <3>1, <3>2 DEF ReadKept
        <3>4. call'[d].asOf \in Nat /\ (call[d].asOf <= call'[d].asOf \/ reported <= call'[d].asOf)
            BY <3>1, <3>3
        <3> QED
            BY <3>1, <3>3, <3>4 DEF d
    <2>4. call[w].begun \in Nat /\ call[w].generation \in Nat /\ call[w].begun <= reported
        BY <2>1 DEF Call, ReadKept
    <2>5. call[w].on # None /\ call[w].op # "balance" => call[w].begun <= call'[call[w].on].asOf
        BY <2>1, <2>3, <2>4 DEF ReadKept
    <2>6. call[w].on = w /\ call[w].op # "balance" =>
            /\ call[w].generation <= history.generation
            /\ call[w].generation = history.generation => reported <= call'[w].asOf
        BY <2>1, <2>2 DEF ReadKept
    <2> QED
        BY <2>2, <2>4, <2>5, <2>6 DEF ReadKept
<1>3. Entries'
    BY DEF ClientInv, Entries, TypeOK
<1>4. FreshHistory'
    <2> SUFFICES ASSUME NEW w \in Callers,
                        \/ call'[w].op = "history" /\ call'[w].stage = "answered"
                        \/ call'[w].op = "cancel" /\ call'[w].stage = "ready" /\ call'[w].on = None
                 PROVE  call'[w].asOf = Uncached \/ call'[w].asOf >= call'[w].begun
        BY DEF FreshHistory
    <2>1. /\ WaitKept(w) /\ None \notin Callers
          /\ \/ call[w].op = "history" /\ call[w].stage = "answered"
             \/ call[w].op = "cancel" /\ call[w].stage = "ready" /\ call[w].on = None
        BY CallerFacts DEF Busy
    <2>2. call[w].on # w
        BY <2>1 DEF WaitKept, Busy
    <2> QED
        BY <2>1, <2>2 DEF ClientInv, FreshHistory
<1>5. Steady
    BY DEF Steady
<1> QED
    BY <1>5, <1>1, <1>2, <1>3, <1>4 DEF ClientInv, Waits, Reads

(* A call that begins: answered from the cache, its cancel free to post, with   *)
(* the request under way, or with a fetch of its own.                           *)
Fresh(n) ==
    /\ n \in Call /\ n.posts = 0 /\ n.begun <= reported
    /\ n.stage = "answered" \/ (n.stage = "ready" /\ n.op \in {"submit", "cancel"})
    /\ n.op \in {"history", "cancel"} => n.asOf = Uncached \/ n.begun <= n.asOf
    /\ n.on = None

Joining(n, d) ==
    /\ n \in Call /\ n.posts = 0 /\ n.begun <= reported
    /\ n.stage = "joined" /\ n.op # "submit"
    /\ n.on = d /\ d \in Callers
    /\ d = IF n.op = "balance" THEN balance.request ELSE history.request

Fetching(n, c) ==
    /\ n \in Call /\ n.posts = 0 /\ n.begun <= reported
    /\ n.stage = "ready" /\ n.op # "submit" /\ n.on = c /\ n.asOf = MaxPosts
    /\ n.op # "balance" => n.generation = history.generation

Starts(c, n) == call' = [call EXCEPT ![c] = n]

NewCall(n, c) == Fresh(n) \/ (\E d \in Callers : Joining(n, d)) \/ Fetching(n, c)

LEMMA BeginsKeep ==
    ASSUME ClientInv, TypeOK', NEW c \in Callers, NEW n,
           call[c].stage \in {"free", "answered"},
           Starts(c, n),
           NewCall(n, c),
           history'.cache = history.cache, history'.generation = history.generation,
           balance'.request = balance.request
             \/ (balance'.request = c /\ Fetching(n, c) /\ n.op = "balance"),
           history'.request = history.request
             \/ (history'.request = c /\ Fetching(n, c) /\ n.op # "balance"),
           queue' = queue, reported' = reported
    PROVE  ClientInv'
<1>1. /\ call[c].on = None /\ None \notin Callers
      /\ \A w \in Callers : call[w].on # c
      /\ \A w \in Callers : call[w].on # None => call[w].on \in Callers
    <2>1. call[c].on = None
        BY CallerFacts DEF WaitKept, Busy
    <2> QED
        BY <2>1, CallerFacts DEF WaitKept
<1>2. call'[c] = n /\ \A w \in Callers \ {c} : call'[w] = call[w]
    BY DEF ClientInv, TypeOK, Starts
<1>3. ASSUME NEW d \in Callers, Joining(n, d)
      PROVE  /\ d # c /\ call[d].on = d
             /\ (call[d].op = "balance") = (n.op = "balance")
             /\ n.op # "balance" => n.begun <= call[d].asOf
    <2>1. /\ call[d].on = d
          /\ (call[d].op = "balance") = (n.op = "balance")
          /\ n.op # "balance" => call[d].generation = history.generation
        BY <1>1, <1>3 DEF ClientInv, Entries, Joining
    <2>2. d # c
        BY <1>1, <1>3, <2>1
    <2>3. n.op # "balance" => reported <= call[d].asOf /\ call[d].asOf \in Nat
        <3>1. ReadKept(d)
            BY <1>3, CallerFacts
        <3> QED
            BY <2>1, <3>1 DEF ReadKept
    <2>4. n.begun \in Nat /\ n.begun <= reported /\ reported \in Nat
        BY <1>3, CallerFacts DEF Joining, Call
    <2> QED
        BY <1>3, <2>1, <2>2, <2>3, <2>4
<1>4. ASSUME NEW w \in Callers
      PROVE  WaitKept(w)'
    <2>1. CASE w # c
        BY <1>1, <1>2, <2>1, CallerFacts DEF WaitKept
    <2>2. CASE w = c /\ Fresh(n)
        BY <1>2, <2>2 DEF WaitKept, Fresh, Busy
    <2>3. CASE w = c /\ Fetching(n, c)
        BY <1>1, <1>2, <2>3 DEF WaitKept, Fetching, Busy
    <2>4. ASSUME w = c, NEW d \in Callers, Joining(n, d)
          PROVE  WaitKept(w)'
        BY <1>1, <1>2, <1>3, <2>4 DEF WaitKept, Joining, Busy
    <2> QED
        BY <2>1, <2>2, <2>3, <2>4 DEF NewCall
<1>5. ASSUME NEW w \in Callers
      PROVE  ReadKept(w)'
    <2>1. CASE w # c
        BY <1>1, <1>2, <2>1, CallerFacts DEF ReadKept
    <2>2. CASE w = c /\ Fresh(n)
        BY <1>1, <1>2, <2>2 DEF ReadKept, Fresh
    <2>3. CASE w = c /\ Fetching(n, c)
        <3>1. /\ reported \in Nat /\ MaxPosts \in Nat /\ reported <= MaxPosts
              /\ n.begun \in Nat /\ history.generation \in Nat
            BY <2>3, CallerFacts DEF Fetching, Call, ClientInv, TypeOK
        <3> QED
            BY <1>1, <1>2, <2>3, <3>1 DEF ReadKept, Fetching
    <2>4. ASSUME w = c, NEW d \in Callers, Joining(n, d)
          PROVE  ReadKept(w)'
        BY <1>1, <1>2, <1>3, <2>4 DEF ReadKept, Joining
    <2> QED
        BY <2>1, <2>2, <2>3, <2>4 DEF NewCall
<1>6. Reads'
    BY <1>5 DEF ClientInv, Reads
<1>7. Entries'
    BY <1>1, <1>2 DEF ClientInv, Entries, TypeOK, Fetching
<1>8. Turns'
    <2>1. ASSUME NEW w \in Callers
          PROVE  /\ call'[w].posts = IF call'[w].stage = "sent" /\ Posting(w)' THEN 1 ELSE 0
                 /\ call[w].stage = "queued" => call'[w].stage = "queued"
        BY <1>2 DEF ClientInv, Turns, Posting, NewCall, Fresh, Joining, Fetching
    <2> QED
        BY <2>1 DEF ClientInv, Turns, TypeOK
<1>9. FreshHistory'
    <2> SUFFICES ASSUME NEW w \in Callers,
                        \/ call'[w].op = "history" /\ call'[w].stage = "answered"
                        \/ call'[w].op = "cancel" /\ call'[w].stage = "ready" /\ call'[w].on = None
                 PROVE  call'[w].asOf = Uncached \/ call'[w].asOf >= call'[w].begun
        BY DEF FreshHistory
    <2>1. CASE w # c
        BY <1>2, <2>1 DEF ClientInv, FreshHistory
    <2>2. CASE w = c
        <3>1. Fresh(n)
            BY <1>1, <1>2, <2>2 DEF NewCall, Joining, Fetching
        <3> QED
            BY <1>2, <2>2, <3>1 DEF Fresh, Call, Shown, Uncached
    <2> QED
        BY <2>1, <2>2
<1> QED
    BY <1>4, <1>6, <1>7, <1>8, <1>9 DEF ClientInv, Waits

(* A mutation that is accepted: what was reported is one more, and every        *)
(* history read or under way is of a generation that passed.                    *)
LEMMA AcceptedKeeps ==
    ASSUME ClientInv, NEW c \in Callers, Accepted(c)
    PROVE  ClientInv' /\ Steady
<1> DEFINE n == Ended(call[c], 0)
<1>1. /\ call' = [call EXCEPT ![c] = n] /\ call[c].stage = "sent" /\ Posting(c)
      /\ accepted < MaxPosts /\ accepted' = accepted + 1 /\ reported' = accepted'
      /\ history' = Invalidated(history) /\ balance' = [balance EXCEPT !.cache = Uncached]
      /\ queue' = queue /\ token' = token
    BY DEF Accepted
<1>2. n \in Call /\ n.op = call[c].op /\ n.begun = call[c].begun /\ n.on = None
      /\ n.stage = "answered" /\ n.posts = 0
    BY EndedIs, CallerFacts DEF Shown
<1> HIDE DEF n
<1>3. call'[c] = n /\ \A w \in Callers \ {c} : call'[w] = call[w]
    BY <1>1 DEF ClientInv, TypeOK
<1>4. history.generation \in Nat /\ history'.generation = history.generation + 1
      /\ history'.cache = Uncached /\ history'.request = None
      /\ history' \in [cache : Shown, request : Callers \cup {None}, generation : Nat]
    <2>1. history \in [cache : Shown, request : Callers \cup {None}, generation : Nat]
        BY DEF ClientInv, TypeOK
    <2>2. history' = [history EXCEPT !.cache = Uncached, !.request = None,
                                     !.generation = history.generation + 1]
        BY <1>1 DEF Invalidated
    <2>3. history.generation \in Nat /\ Uncached \in Shown
        BY <2>1 DEF Shown
    <2>4. history' = [cache |-> Uncached, request |-> None, generation |-> history.generation + 1]
        BY <2>1, <2>2
    <2> QED
        BY <2>3, <2>4
<1>5. balance' \in [cache : Shown, request : Callers \cup {None}]
      /\ balance'.request = balance.request
    BY <1>1 DEF ClientInv, TypeOK, Shown
<1>6. TypeOK'
    BY <1>1, <1>2, <1>4, <1>5, ClientAssumption DEF ClientInv, TypeOK
<1>7. call[c].on = None /\ call[c].op \in {"submit", "cancel"} /\ None \notin Callers
      /\ \A w \in Callers : call[w].on # c
    <2>1. call[c].on = None
        BY <1>1, CallerFacts DEF WaitKept, Posting
    <2> QED
        BY <1>1, <2>1, CallerFacts DEF WaitKept, Posting
<1>8. ASSUME NEW w \in Callers
      PROVE  WaitKept(w)' /\ ReadKept(w)'
    <2>1. CASE w = c
        <3>1. n.begun \in Nat /\ n.begun <= reported /\ reported \in Nat /\ reported <= accepted
              /\ accepted \in Nat
            BY <1>2, CallerFacts DEF ReadKept, Call
        <3> QED
            BY <1>1, <1>2, <1>3, <1>7, <2>1, <3>1 DEF WaitKept, ReadKept, Busy
    <2>2. CASE w # c
        <3>1. call[w].begun \in Nat /\ reported \in Nat /\ reported <= accepted /\ accepted \in Nat
              /\ call[w].generation \in Nat
            BY CallerFacts DEF Call
        <3>2. call'[w] = call[w]
            BY <1>3, <2>2
        <3>3. call[w].on # None => call[w].on \in Callers /\ call'[call[w].on] = call[call[w].on]
            BY <1>3, <1>7, CallerFacts
        <3>4. call[w].on = w /\ call[w].op # "balance" =>
                call[w].generation # history'.generation /\ call[w].generation <= history'.generation
            BY <1>4, <3>1, CallerFacts DEF ReadKept
        <3> QED
            BY <1>1, <3>1, <3>2, <3>3, <3>4, CallerFacts DEF WaitKept, ReadKept
    <2> QED
        BY <2>1, <2>2
<1>9. Entries'
    BY <1>3, <1>4, <1>5, <1>7 DEF ClientInv, Entries, TypeOK
<1>10. Turns'
    <2>1. ASSUME NEW w \in Callers
          PROVE  /\ call'[w].posts = IF call'[w].stage = "sent" /\ Posting(w)' THEN 1 ELSE 0
                 /\ call[w].stage = "queued" => call'[w].stage = "queued"
        BY <1>1, <1>2, <1>3 DEF ClientInv, Turns, Posting
    <2> QED
        BY <1>1, <2>1 DEF ClientInv, Turns, TypeOK
<1>11. FreshHistory'
    BY <1>2, <1>3, <1>7 DEF ClientInv, FreshHistory
<1>12. Steady
    BY <1>2, <1>3, <1>5 DEF Steady
<1> QED
    BY <1>12, <1>4, <1>6, <1>8, <1>9, <1>10, <1>11 DEF ClientInv, Waits, Reads

-----------------------------------------------------------------------------
(* The steps of both clients.                                                   *)
LEMMA BeginFresh ==
    ASSUME ClientInv, NEW c \in Callers, NEW n,
           call[c].stage \in {"free", "answered"},
           Starts(c, n),
           Fresh(n) \/ (\E d \in Callers : Joining(n, d)),
           history' = history, balance' = balance, queue' = queue, token' = token,
           accepted' = accepted, reported' = reported
    PROVE  ClientInv'
<1>1. n \in Call
    BY DEF Fresh, Joining
<1>2. TypeOK'
    BY <1>1 DEF ClientInv, TypeOK, Starts
<1>3. NewCall(n, c)
    BY DEF NewCall
<1>4. history'.cache = history.cache /\ history'.generation = history.generation
      /\ history'.request = history.request /\ balance'.request = balance.request
    OBVIOUS
<1> QED
    BY <1>2, <1>3, <1>4, BeginsKeep

LEMMA BeginHistoryKeeps ==
    ASSUME ClientInv, NEW c \in Callers, NEW op \in {"history", "cancel"},
           call[c].stage \in {"free", "answered"}, BeginHistory(c, op),
           UNCHANGED <<balance, queue, token, accepted, reported>>
    PROVE  ClientInv'
<1> DEFINE k == [Begun(op) EXCEPT !.generation = history.generation]
<1>1. /\ history \in [cache : Shown, request : Callers \cup {None}, generation : Nat]
      /\ TypeOK /\ op \in Operations /\ reported \in Nat
    BY CallerFacts DEF ClientInv, TypeOK, Operations
<1>2. /\ k \in Call /\ k.op = op /\ k.stage = "ready" /\ k.on = None /\ k.posts = 0
      /\ k.asOf = MaxPosts /\ k.begun = reported /\ k.generation = history.generation
    BY <1>1, BegunIs DEF Call
<1>3. CASE history.cache # Uncached
    <2>1. PICK n \in Checked(k, history.cache) : Starts(c, n)
        BY <1>3 DEF BeginHistory, Starts
    <2>2. history' = history
        BY <1>3 DEF BeginHistory, Starts
    <2> HIDE DEF k
    <2>3. history.cache \in Shown /\ reported <= history.cache
        BY <1>1, <1>3 DEF ClientInv, Reads
    <2>4. Fresh(n)
        <3>1. CASE n = Ended(k, history.cache)
            <4>1. n \in Call /\ n.op = op /\ n.begun = reported /\ n.stage = "answered"
                  /\ n.asOf = history.cache /\ n.on = None /\ n.posts = 0
                BY <1>2, <2>3, <3>1, EndedIs
            <4> QED
                BY <1>1, <2>3, <4>1 DEF Fresh
        <3>2. CASE n = [k EXCEPT !.stage = "ready", !.asOf = history.cache, !.on = None] /\ k.op = "cancel"
            <4>1. n \in Call
                BY <1>2, <2>3, <3>2 DEF Call, Stages
            <4>2. n.op = "cancel" /\ n.begun = reported /\ n.stage = "ready"
                  /\ n.asOf = history.cache /\ n.on = None /\ n.posts = 0
                BY <1>2, <3>2 DEF Call
            <4> QED
                BY <1>1, <2>3, <4>1, <4>2 DEF Fresh
        <3> QED
            BY <2>1, <3>1, <3>2 DEF Checked
    <2> QED
        BY <2>1, <2>2, <2>4, BeginFresh
<1>4. CASE history.cache = Uncached /\ history.request # None
    <2> DEFINE n == [k EXCEPT !.stage = "joined", !.on = history.request]
    <2>1. Starts(c, n) /\ history' = history
        BY <1>4 DEF BeginHistory, Starts
    <2> HIDE DEF k
    <2>2. history.request \in Callers
        BY <1>1, <1>4
    <2>3. n \in Call /\ n.posts = 0 /\ n.begun = reported /\ n.stage = "joined" /\ n.op = op
          /\ n.on = history.request
        BY <1>2, <2>2 DEF Call, Stages
    <2>4. Joining(n, history.request)
        BY <1>1, <2>2, <2>3 DEF Joining
    <2> HIDE DEF n
    <2> QED
        BY <2>1, <2>2, <2>4, BeginFresh
<1>5. CASE history.cache = Uncached /\ history.request = None
    <2> DEFINE n == [k EXCEPT !.on = c]
    <2>1. Starts(c, n) /\ history' = [history EXCEPT !.request = c]
        BY <1>5 DEF BeginHistory, Starts
    <2> HIDE DEF k
    <2>2. n \in Call /\ n.posts = 0 /\ n.begun = reported /\ n.stage = "ready" /\ n.op = op
          /\ n.on = c /\ n.asOf = MaxPosts /\ n.generation = history.generation
        BY <1>2 DEF Call
    <2>3. Fetching(n, c)
        BY <1>1, <2>2 DEF Fetching
    <2> HIDE DEF n
    <2>4. /\ history' \in [cache : Shown, request : Callers \cup {None}, generation : Nat]
          /\ history'.cache = history.cache /\ history'.generation = history.generation
          /\ history'.request = c
        BY <1>1, <2>1
    <2>5. TypeOK'
        BY <2>1, <2>2, <2>4 DEF ClientInv, TypeOK, Starts
    <2> QED
        <3>1. NewCall(n, c) /\ n.op # "balance"
            BY <2>2, <2>3 DEF NewCall
        <3>2. balance'.request = balance.request
            OBVIOUS
        <3> QED
            BY <2>1, <2>3, <2>4, <2>5, <3>1, <3>2, BeginsKeep
<1> QED
    BY <1>3, <1>4, <1>5

LEMMA BeginKeeps ==
    ASSUME ClientInv, NEW c \in Callers, NEW op \in Operations, Begin(c, op)
    PROVE  ClientInv'
<1> DEFINE k == Begun(op)
<1>1. /\ call[c].stage \in {"free", "answered"}
      /\ UNCHANGED <<queue, token, accepted, reported>>
      /\ TypeOK /\ reported \in Nat
      /\ balance \in [cache : Shown, request : Callers \cup {None}]
    BY CallerFacts DEF Begin, ClientInv, TypeOK
<1>2. /\ k \in Call /\ k.op = op /\ k.stage = "ready" /\ k.on = None /\ k.posts = 0
      /\ k.asOf = MaxPosts /\ k.begun = IF op = "submit" THEN 0 ELSE reported
    BY <1>1, BegunIs
<1>3. CASE op \in {"history", "cancel"}
    BY <1>1, <1>3, BeginHistoryKeeps DEF Begin
<1>4. CASE op = "submit"
    <2>1. Starts(c, k) /\ history' = history /\ balance' = balance
        BY <1>4 DEF Begin, Starts
    <2> HIDE DEF k
    <2>2. Fresh(k)
        BY <1>1, <1>2, <1>4 DEF Fresh
    <2> QED
        BY <1>1, <2>1, <2>2, BeginFresh
<1>5. CASE op = "balance"
    <2>1. BeginBalance(c) /\ history' = history
        BY <1>5 DEF Begin
    <2>2. k = Begun("balance")
        BY <1>5
    <2> HIDE DEF k
    <2>3. CASE balance.cache # Uncached
        <3> DEFINE n == Ended(k, balance.cache)
        <3>1. Starts(c, n) /\ balance' = balance
            BY <2>1, <2>2, <2>3 DEF BeginBalance, Starts
        <3>2. Fresh(n)
            BY <1>1, <1>2, <1>5, EndedIs DEF Fresh
        <3> QED
            BY <1>1, <2>1, <3>1, <3>2, BeginFresh
    <2>4. CASE balance.cache = Uncached /\ balance.request # None
        <3> DEFINE n == [k EXCEPT !.stage = "joined", !.on = balance.request]
        <3>1. Starts(c, n) /\ balance' = balance
            BY <2>1, <2>2, <2>4 DEF BeginBalance, Starts
        <3>2. balance.request \in Callers
            BY <1>1, <2>4
        <3>3. n \in Call /\ n.posts = 0 /\ n.begun = reported /\ n.stage = "joined" /\ n.op = op
              /\ n.on = balance.request
            BY <1>2, <1>5, <3>2 DEF Call, Stages
        <3>4. Joining(n, balance.request)
            BY <1>1, <1>5, <3>2, <3>3 DEF Joining
        <3> HIDE DEF n
        <3> QED
            BY <1>1, <2>1, <3>1, <3>2, <3>4, BeginFresh
    <2>5. CASE balance.cache = Uncached /\ balance.request = None
        <3> DEFINE n == [k EXCEPT !.on = c]
        <3>1. Starts(c, n) /\ balance' = [balance EXCEPT !.request = c]
            BY <2>1, <2>2, <2>5 DEF BeginBalance, Starts
        <3>2. n \in Call /\ n.posts = 0 /\ n.begun = reported /\ n.stage = "ready" /\ n.op = op
              /\ n.on = c /\ n.asOf = MaxPosts
            BY <1>2, <1>5 DEF Call
        <3>3. Fetching(n, c)
            BY <1>1, <1>5, <3>2 DEF Fetching
        <3> HIDE DEF n
        <3>4. balance' \in [cache : Shown, request : Callers \cup {None}] /\ balance'.request = c
            BY <1>1, <3>1
        <3>5. TypeOK'
            BY <1>1, <2>1, <3>1, <3>2, <3>4 DEF TypeOK, Starts
        <3> QED
            <4>1. NewCall(n, c) /\ n.op = "balance"
                BY <1>5, <3>2, <3>3 DEF NewCall
            <4>2. history'.cache = history.cache /\ history'.generation = history.generation
                  /\ history'.request = history.request
                BY <2>1
            <4> QED
                BY <1>1, <3>1, <3>3, <3>4, <3>5, <4>1, <4>2, BeginsKeep
    <2> QED
        BY <2>3, <2>4, <2>5
<1> QED
    BY <1>3, <1>4, <1>5 DEF Operations

-----------------------------------------------------------------------------
(* A caller whose request is ready or sent and that does not post runs a fetch. *)
LEMMA RunsAFetch ==
    ASSUME ClientInv, NEW c \in Callers, call[c].stage \in {"ready", "sent"}, ~Posting(c)
    PROVE  call[c].on = c /\ call[c].op # "submit" /\ call[c].asOf \in Nat
<1>1. call[c].op \notin {"submit", "cancel"} \/ call[c].on # None
    BY DEF Posting
<1>2. call[c].on = c /\ call[c].op # "submit"
    BY <1>1, CallerFacts DEF WaitKept, Busy, Posting
<1> QED
    BY <1>2, CallerFacts DEF ReadKept

(* What the pages of a fetch show to those who wait for it.                     *)
Good(c, a) ==
    /\ a \in Nat
    /\ \A w \in Callers : call[w].on = c /\ call[w].op # "balance" => call[w].begun <= a
    /\ call[c].op # "balance" /\ Cacheable(call[c]) => reported <= a

EndOf(k, a) == IF a = Uncached THEN {Ended(k, Uncached)} ELSE Checked(k, a)

LEMMA FetchEndsKeeps ==
    ASSUME ClientInv, NEW c \in Callers, NEW a,
           call[c].stage \in {"ready", "sent"}, ~Posting(c),
           a = Uncached \/ Good(c, a), FetchEnds(c, a),
           queue' = queue, token' = token, reported' = reported, accepted' \in accepted..MaxPosts
    PROVE  ClientInv' /\ Steady
<1>1. /\ call[c].on = c /\ None \notin Callers /\ c # None
      /\ \A w \in Callers : call[w].on = c =>
            /\ call[w] \in Call /\ call[w].posts = 0
            /\ (call[w].op = "balance") = (call[c].op = "balance")
    <2>1. call[c].on = c /\ None \notin Callers
        BY RunsAFetch, CallerFacts
    <2>2. ASSUME NEW w \in Callers, call[w].on = c
          PROVE  /\ call[w] \in Call /\ call[w].posts = 0
                 /\ (call[w].op = "balance") = (call[c].op = "balance")
        <3>1. WaitKept(w) /\ call[w] \in Call
            BY CallerFacts
        <3>2. (call[w].op = "balance") = (call[c].op = "balance") /\ call[w].stage \in Busy \cup {"joined"}
            BY <2>1, <2>2, <3>1 DEF WaitKept
        <3>3. call[w].op # "submit" /\ call[w].on # None
            BY <2>1, <2>2, <3>1 DEF WaitKept
        <3>4. ~Posting(w)
            BY <3>3 DEF Posting
        <3> QED
            BY <3>1, <3>2, <3>4 DEF ClientInv, Turns
    <2> QED
        BY <2>1, <2>2
<1>2. /\ \A w \in Callers : call[w].on = c => call'[w] \in EndOf(call[w], a)
      /\ \A w \in Callers : call[w].on # c => call'[w] = call[w]
      /\ call' = [w \in Callers |-> call'[w]]
    BY DEF FetchEnds, EndOf
<1>3. ASSUME NEW w \in Callers, call[w].on = c
      PROVE  Outcome(call[w], call'[w])
    <2>1. call[w] \in Call /\ call[w].posts = 0 /\ call[w].on # None
        BY <1>1, <1>3
    <2>2. CASE a = Uncached
        <3>1. call'[w] = Ended(call[w], Uncached) /\ Uncached \in Shown
            BY <1>2, <1>3, <2>2 DEF EndOf, Shown
        <3> QED
            BY <2>1, <3>1, EndedOutcome
    <2>3. CASE Good(c, a)
        <3>1. a \in Nat /\ (call[w].op = "balance" \/ call[w].begun <= a)
            BY <1>3, <2>3 DEF Good
        <3>2. call'[w] \in Checked(call[w], a)
            BY <1>2, <1>3, <3>1 DEF EndOf, Uncached
        <3> QED
            BY <2>1, <3>1, <3>2, CheckedOutcome
    <2> QED
        BY <2>2, <2>3
<1>4. call' \in [Callers -> Call]
    <2>1. \A w \in Callers : call'[w] \in Call
        BY <1>2, <1>3, CallerFacts DEF Outcome
    <2> QED
        BY <1>2, <2>1
<1>5. \A w \in Callers : Over({c}, w) <=> call[w].on = c
    BY <1>1 DEF Over
<1>6. /\ a \in Shown /\ (a # Uncached => a \in Nat)
      /\ balance \in [cache : Shown, request : Callers \cup {None}]
      /\ history \in [cache : Shown, request : Callers \cup {None}, generation : Nat]
    BY DEF Good, Shown, ClientInv, TypeOK
<1>7. CASE call[c].op = "balance"
    <2>1. /\ history' = history
          /\ balance' = [cache |-> IF a # Uncached THEN a ELSE balance.cache,
                         request |-> IF balance.request = c THEN None ELSE balance.request]
        BY <1>7 DEF FetchEnds
    <2>2. balance' \in [cache : Shown, request : Callers \cup {None}]
        BY <1>6, <2>1
    <2>3. balance'.request = IF balance.request = c THEN None ELSE balance.request
        BY <2>1
    <2>4. history'.request # None => history'.request = history.request /\ history.request \notin {c}
        BY <1>7, <2>1 DEF ClientInv, Entries
    <2>5. TypeOK'
        BY <1>4, <2>1, <2>2, CallerFacts DEF ClientInv, TypeOK
    <2>6. history'.generation = history.generation /\ history'.cache = history.cache
        BY <2>1
    <2> QED
        BY <1>2, <1>3, <1>5, <2>3, <2>4, <2>5, <2>6, EndsKeep
<1>8. CASE call[c].op # "balance"
    <2>1. /\ balance' = balance
          /\ history' = [history EXCEPT
                  !.cache = IF a # Uncached /\ Cacheable(call[c]) THEN a ELSE @,
                  !.request = IF @ = c THEN None ELSE @]
        BY <1>8 DEF FetchEnds
    <2>2. /\ history' \in [cache : Shown, request : Callers \cup {None}, generation : Nat]
          /\ history'.generation = history.generation
          /\ history'.cache = IF a # Uncached /\ Cacheable(call[c]) THEN a ELSE history.cache
          /\ history'.request = IF history.request = c THEN None ELSE history.request
        BY <1>6, <2>1
    <2>3. balance'.request # None => balance'.request = balance.request /\ balance.request \notin {c}
        BY <1>8, <2>1 DEF ClientInv, Entries
    <2>4. TypeOK'
        BY <1>4, <2>1, <2>2, CallerFacts DEF ClientInv, TypeOK
    <2>5. history'.cache = history.cache \/ history'.cache = Uncached \/ reported <= history'.cache
        BY <1>8, <2>2 DEF Good
    <2> QED
        BY <1>2, <1>3, <1>5, <2>2, <2>3, <2>4, <2>5, EndsKeep
<1> QED
    BY <1>7, <1>8

(* A post that ends without an answer it was accepted by.                       *)
LEMMA PostEndsKeeps ==
    ASSUME ClientInv, NEW c \in Callers, call[c].stage \in {"ready", "sent"}, Posting(c),
           call' = [call EXCEPT ![c] = Ended(call[c], Uncached)],
           history' = history, balance' = balance, queue' = queue, token' = token,
           reported' = reported, accepted' \in accepted..MaxPosts
    PROVE  ClientInv' /\ Steady
<1>1. call[c].on = None /\ call[c].op \in {"submit", "cancel"} /\ call[c] \in Call
      /\ None \notin Callers /\ \A w \in Callers : call[w].on # c
    <2>1. call[c].on = None /\ call[c].op \in {"submit", "cancel"} /\ call[c] \in Call
          /\ None \notin Callers
        BY CallerFacts DEF WaitKept, Posting
    <2> QED
        BY <2>1, CallerFacts DEF WaitKept
<1>2. Outcome(call[c], Ended(call[c], Uncached)) /\ Ended(call[c], Uncached) \in Call
    BY <1>1, EndedOutcome, EndedIs DEF Shown
<1>3. call'[c] = Ended(call[c], Uncached) /\ \A w \in Callers \ {c} : call'[w] = call[w]
    BY DEF ClientInv, TypeOK
<1>4. \A w \in Callers : Over({c}, w) <=> w = c
    BY <1>1 DEF Over
<1>5. TypeOK'
    BY <1>2, CallerFacts DEF ClientInv, TypeOK
<1>6. /\ balance'.request # None => balance'.request = balance.request /\ balance.request \notin {c}
      /\ history'.request # None => history'.request = history.request /\ history.request \notin {c}
    BY <1>1 DEF ClientInv, Entries
<1>7. history'.generation = history.generation /\ history'.cache = history.cache
    OBVIOUS
<1> QED
    BY <1>2, <1>3, <1>4, <1>5, <1>6, <1>7, EndsKeep

-----------------------------------------------------------------------------
(* The queue: callers that were not in it come to its end; its head leaves it.  *)
LEMMA QueueGrows ==
    ASSUME ClientInv, NEW order \in Seq(Callers),
           \A i, j \in DOMAIN order : i # j => order[i] # order[j],
           \A i \in DOMAIN order :
              call[order[i]].stage # "queued" /\ call'[order[i]].stage = "queued",
           queue' = queue \o order,
           \A w \in Callers :
              /\ call'[w].op = call[w].op /\ call'[w].on = call[w].on
              /\ call'[w].posts = call[w].posts
              /\ call[w].stage = "queued" => call'[w].stage = "queued"
              /\ call'[w].stage = call[w].stage
                   \/ (call[w].stage # "sent" /\ call'[w].stage # "sent")
    PROVE  Turns' /\ queue' \in Seq(Callers)
<1>1. queue \in Seq(Callers) /\ Turns
    BY DEF ClientInv, TypeOK
<1>2. /\ queue' \in Seq(Callers) /\ Len(queue') = Len(queue) + Len(order)
      /\ Len(queue) \in Nat /\ Len(order) \in Nat
      /\ \A i \in 1..Len(queue) : queue'[i] = queue[i]
      /\ \A i \in 1..Len(queue') : i > Len(queue) =>
            i - Len(queue) \in 1..Len(order) /\ queue'[i] = order[i - Len(queue)]
    BY <1>1
<1>3. \A i \in 1..Len(queue) : call[queue[i]].stage = "queued" /\ queue[i] \in Callers
    BY <1>1 DEF Turns
<1>4. ASSUME NEW i \in 1..Len(queue')
      PROVE  call'[queue'[i]].stage = "queued"
    <2>1. CASE i <= Len(queue)
        BY <1>2, <1>3, <2>1
    <2>2. CASE i > Len(queue)
        BY <1>2, <2>2
    <2> QED
        BY <1>2, <2>1, <2>2
<1>5. ASSUME NEW i \in 1..Len(queue'), NEW j \in 1..Len(queue'), i < j
      PROVE  queue'[i] # queue'[j]
    <2>1. CASE j <= Len(queue)
        BY <1>1, <1>2, <1>5, <2>1 DEF Turns
    <2>2. CASE i <= Len(queue) /\ j > Len(queue)
        BY <1>2, <1>3, <2>2
    <2>3. CASE i > Len(queue)
        BY <1>2, <1>5, <2>3
    <2> QED
        BY <1>2, <1>5, <2>1, <2>2, <2>3
<1>6. \A i, j \in DOMAIN queue' : i # j => queue'[i] # queue'[j]
    <2> SUFFICES ASSUME NEW i \in 1..Len(queue'), NEW j \in 1..Len(queue'), i # j
                 PROVE  queue'[i] # queue'[j]
        BY <1>2
    <2>1. CASE i < j
        BY <1>5, <2>1
    <2>2. CASE j < i
        BY <1>5, <2>2
    <2> QED
        BY <1>2, <2>1, <2>2
<1>7. \A w \in Callers : call'[w].posts = IF call'[w].stage = "sent" /\ Posting(w)' THEN 1 ELSE 0
    BY <1>1 DEF Turns, Posting
<1> QED
    BY <1>2, <1>4, <1>6, <1>7 DEF Turns

LEMMA QueueSame ==
    ASSUME ClientInv, queue' = queue,
           \A w \in Callers :
              /\ call'[w].op = call[w].op /\ call'[w].on = call[w].on
              /\ call'[w].posts = call[w].posts
              /\ call[w].stage = "queued" => call'[w].stage = "queued"
              /\ \/ call'[w].stage = call[w].stage
                 \/ ~Posting(w)
                 \/ call[w].stage # "sent" /\ call'[w].stage # "sent"
    PROVE  Turns'
<1>1. \A i \in DOMAIN queue : queue[i] \in Callers
    BY DEF ClientInv, TypeOK
<1>2. \A w \in Callers : call'[w].posts = IF call'[w].stage = "sent" /\ Posting(w)' THEN 1 ELSE 0
    BY DEF ClientInv, Turns, Posting
<1> QED
    BY <1>1, <1>2 DEF ClientInv, Turns

LEMMA SendKeeps ==
    ASSUME ClientInv, Send
    PROVE  ClientInv' /\ Steady
<1> DEFINE c == Head(queue)
<1>1. /\ queue \in Seq(Callers) /\ queue # <<>> /\ Turns /\ call \in [Callers -> Call]
      /\ queue' = Tail(queue)
      /\ call' = [call EXCEPT ![c].stage = "sent", ![c].posts = IF Posting(c) THEN @ + 1 ELSE @]
      /\ UNCHANGED <<token, balance, history, accepted, reported>>
    BY DEF ClientInv, TypeOK, Send
<1>2. /\ c \in Callers /\ c = queue[1] /\ Len(queue) \in Nat /\ Len(queue) >= 1
      /\ queue' \in Seq(Callers) /\ Len(queue') = Len(queue) - 1
      /\ \A i \in 1..Len(queue') : queue'[i] = queue[i + 1] /\ i + 1 \in 1..Len(queue)
    BY <1>1
<1> HIDE DEF c
<1>3. call[c].stage = "queued" /\ call[c].posts = 0 /\ call[c] \in Call
    BY <1>1, <1>2 DEF Turns
<1> DEFINE n == [call[c] EXCEPT !.stage = "sent", !.posts = IF Posting(c) THEN @ + 1 ELSE @]
<1>4. call' = [call EXCEPT ![c] = n]
    <2>1. CASE Posting(c)
        BY <1>1, <1>2, <1>3, <2>1
    <2>2. CASE ~Posting(c)
        BY <1>1, <1>2, <1>3, <2>2
    <2> QED
        BY <2>1, <2>2
<1>5. /\ n \in Call /\ n.op = call[c].op /\ n.on = call[c].on /\ n.begun = call[c].begun
      /\ n.generation = call[c].generation /\ n.asOf = call[c].asOf /\ n.stage = "sent"
      /\ n.posts = IF Posting(c) THEN 1 ELSE 0
    <2>1. CASE Posting(c)
        <3>1. n = [call[c] EXCEPT !.stage = "sent", !.posts = 1]
            BY <1>3, <2>1
        <3> HIDE DEF n
        <3> QED
            BY <1>3, <2>1, <3>1 DEF Call, Stages
    <2>2. CASE ~Posting(c)
        <3>1. n = [call[c] EXCEPT !.stage = "sent", !.posts = @]
            BY <2>2
        <3> HIDE DEF n
        <3> QED
            BY <1>3, <2>2, <3>1 DEF Call, Stages
    <2> QED
        BY <2>1, <2>2
<1> HIDE DEF n
<1>6. call'[c] = n /\ \A w \in Callers \ {c} : call'[w] = call[w]
    BY <1>1, <1>2, <1>4
<1>7. TypeOK'
    BY <1>1, <1>2, <1>5, <1>6, <1>4 DEF ClientInv, TypeOK
<1>8. Waits' /\ Entries' /\ Reads' /\ FreshHistory' /\ Steady
    BY <1>1, <1>3, <1>5, <1>6, MovesKeep DEF Busy
<1>9. Turns'
    <2>1. ASSUME NEW i \in 1..Len(queue')
          PROVE  queue'[i] \in Callers \ {c} /\ call[queue'[i]].stage = "queued"
        BY <1>1, <1>2 DEF Turns
    <2>2. \A i, j \in DOMAIN queue' : i # j => queue'[i] # queue'[j]
        BY <1>1, <1>2 DEF Turns
    <2>3. \A w \in Callers : call'[w].posts = IF call'[w].stage = "sent" /\ Posting(w)' THEN 1 ELSE 0
        BY <1>1, <1>5, <1>6 DEF Turns, Posting
    <2>4. \A i \in DOMAIN queue' : call'[queue'[i]].stage = "queued"
        BY <1>2, <1>6, <2>1
    <2> QED
        BY <2>2, <2>3, <2>4 DEF Turns
<1> QED
    BY <1>7, <1>8, <1>9 DEF ClientInv

-----------------------------------------------------------------------------
LEMMA ThrowsKeeps ==
    ASSUME ClientInv, NEW c \in Callers, call[c].stage \in {"ready", "sent"}, Throws(c),
           queue' = queue, token' = token, reported' = reported, accepted' \in accepted..MaxPosts
    PROVE  ClientInv' /\ Steady
<1>1. CASE Posting(c)
    BY <1>1, PostEndsKeeps DEF Throws
<1>2. CASE ~Posting(c)
    BY <1>2, FetchEndsKeeps DEF Throws
<1> QED
    BY <1>1, <1>2

LEMMA AuthorizeKeeps ==
    ASSUME ClientInv, NEW c \in Callers, Authorize(c)
    PROVE  ClientInv' /\ Steady
<1>1. /\ call[c].stage = "ready" /\ call \in [Callers -> Call] /\ call[c] \in Call
      /\ UNCHANGED <<token, accepted, reported>> /\ token \in Tokens /\ queue \in Seq(Callers)
      /\ accepted' \in accepted..MaxPosts
    BY CallerFacts DEF Authorize, ClientInv, TypeOK
<1> DEFINE To(stage) == [call[c] EXCEPT !.stage = stage, !.retried = FALSE]
<1>2. ASSUME NEW stage \in {"queued", "token"}
      PROVE  /\ To(stage) \in Call /\ To(stage).op = call[c].op /\ To(stage).on = call[c].on
             /\ To(stage).begun = call[c].begun /\ To(stage).generation = call[c].generation
             /\ To(stage).asOf = call[c].asOf /\ To(stage).stage = stage
             /\ To(stage).posts = call[c].posts
    BY <1>1 DEF Call, Stages
<1>3. CASE token = "valid"
    <2> DEFINE n == To("queued")
    <2>1. call' = [call EXCEPT ![c] = n] /\ queue' = Append(queue, c)
          /\ history' = history /\ balance' = balance
        BY <1>1, <1>3 DEF Authorize
    <2>2. /\ n \in Call /\ n.op = call[c].op /\ n.on = call[c].on
          /\ n.begun = call[c].begun /\ n.generation = call[c].generation
          /\ n.asOf = call[c].asOf /\ n.stage = "queued" /\ n.posts = call[c].posts
        BY <1>2
    <2> HIDE DEF n
    <2>3. call'[c] = n /\ \A w \in Callers \ {c} : call'[w] = call[w]
        BY <1>1, <2>1
    <2>4. Waits' /\ Entries' /\ Reads' /\ FreshHistory' /\ Steady
        BY <1>1, <2>1, <2>2, <2>3, MovesKeep DEF Busy
    <2> DEFINE order == <<c>>
    <2>5. /\ queue' = queue \o order /\ order \in Seq(Callers)
          /\ \A i \in DOMAIN order : i = 1 /\ order[i] = c
        BY <1>1, <2>1
    <2> HIDE DEF order
    <2>6. Turns' /\ queue' \in Seq(Callers)
        BY <1>1, <2>2, <2>3, <2>5, QueueGrows
    <2>7. TypeOK'
        BY <1>1, <2>1, <2>2, <2>6 DEF ClientInv, TypeOK
    <2> QED
        BY <2>4, <2>6, <2>7 DEF ClientInv
<1>4. CASE token = "missing"
    <2> DEFINE n == To("token")
    <2>1. call' = [call EXCEPT ![c] = n] /\ queue' = queue
          /\ history' = history /\ balance' = balance
        BY <1>1, <1>4 DEF Authorize
    <2>2. /\ n \in Call /\ n.op = call[c].op /\ n.on = call[c].on
          /\ n.begun = call[c].begun /\ n.generation = call[c].generation
          /\ n.asOf = call[c].asOf /\ n.stage = "token" /\ n.posts = call[c].posts
        BY <1>2
    <2> HIDE DEF n
    <2>3. call'[c] = n /\ \A w \in Callers \ {c} : call'[w] = call[w]
        BY <1>1, <2>1
    <2>4. Waits' /\ Entries' /\ Reads' /\ FreshHistory' /\ Steady
        BY <1>1, <2>1, <2>2, <2>3, MovesKeep DEF Busy
    <2>5. Turns'
        BY <1>1, <2>1, <2>2, <2>3, QueueSame
    <2>6. TypeOK'
        BY <1>1, <2>1, <2>2 DEF ClientInv, TypeOK
    <2> QED
        BY <2>4, <2>5, <2>6 DEF ClientInv
<1>5. CASE token = "damaged"
    BY <1>1, <1>5, ThrowsKeeps DEF Authorize
<1> QED
    BY <1>1, <1>3, <1>4, <1>5 DEF Tokens

LEMMA TokenIssuedKeeps ==
    ASSUME ClientInv, TokenIssued
    PROVE  ClientInv' /\ Steady
<1>1. /\ call \in [Callers -> Call] /\ queue \in Seq(Callers)
      /\ token' = "valid" /\ UNCHANGED <<balance, history, accepted, reported>>
      /\ call' = [c \in Callers |->
                    IF c \in TokenWaiters THEN [call[c] EXCEPT !.stage = "queued"] ELSE call[c]]
    BY DEF TokenIssued, ClientInv, TypeOK
<1>2. PICK order \in SetToSeqs(TokenWaiters) : queue' = queue \o order
    BY DEF TokenIssued
<1>3. IsFiniteSet(TokenWaiters) /\ Cardinality(TokenWaiters) \in Nat
    BY FS_Subset, FS_CardinalityType, ClientAssumption DEF TokenWaiters
<1>4. /\ order \in Seq(TokenWaiters) /\ order \in Seq(Callers)
      /\ \A i, j \in DOMAIN order : i # j => order[i] # order[j]
      /\ \A i \in DOMAIN order : order[i] \in TokenWaiters
    <2>1. /\ order \in [1..Cardinality(TokenWaiters) -> TokenWaiters]
          /\ \A i, j \in 1..Cardinality(TokenWaiters) : i # j => order[i] # order[j]
        BY DEF SetToSeqs
    <2>2. TokenWaiters \subseteq Callers
        BY DEF TokenWaiters
    <2>3. order \in [1..Cardinality(TokenWaiters) -> Callers]
        BY <2>1, <2>2
    <2> QED
        BY <1>3, <2>1, <2>3
<1>5. ASSUME NEW w \in Callers
      PROVE  /\ call'[w] \in Call
             /\ call'[w].op = call[w].op /\ call'[w].on = call[w].on
             /\ call'[w].begun = call[w].begun /\ call'[w].generation = call[w].generation
             /\ call'[w].asOf = call[w].asOf /\ call'[w].posts = call[w].posts
             /\ w \in TokenWaiters => call[w].stage = "token" /\ call'[w].stage = "queued"
             /\ w \notin TokenWaiters => call'[w].stage = call[w].stage
    <2>1. CASE w \in TokenWaiters
        <3>1. call'[w] = [call[w] EXCEPT !.stage = "queued"] /\ call[w] \in Call
            BY <1>1, <2>1
        <3> QED
            BY <2>1, <3>1 DEF Call, Stages, TokenWaiters
    <2>2. CASE w \notin TokenWaiters
        BY <1>1, <2>2
    <2> QED
        BY <2>1, <2>2
<1>6. Waits' /\ Entries' /\ Reads' /\ FreshHistory' /\ Steady
    BY <1>1, <1>5, MovesKeep DEF Busy
<1>7. Turns' /\ queue' \in Seq(Callers)
    <2>1. \A i \in DOMAIN order : call[order[i]].stage # "queued" /\ call'[order[i]].stage = "queued"
        BY <1>4, <1>5 DEF TokenWaiters
    <2>2. \A w \in Callers :
              /\ call'[w].op = call[w].op /\ call'[w].on = call[w].on
              /\ call'[w].posts = call[w].posts
              /\ call[w].stage = "queued" => call'[w].stage = "queued"
              /\ call'[w].stage = call[w].stage
                   \/ (call[w].stage # "sent" /\ call'[w].stage # "sent")
        BY <1>5
    <2> QED
        BY <1>2, <1>4, <2>1, <2>2, QueueGrows
<1>8. TypeOK'
    BY <1>1, <1>5, <1>7 DEF ClientInv, TypeOK, Tokens
<1> QED
    BY <1>6, <1>7, <1>8 DEF ClientInv

LEMMA TokenFailsKeeps ==
    ASSUME ClientInv, TokenFails
    PROVE  ClientInv' /\ Steady
<1>1. /\ call \in [Callers -> Call]
      /\ UNCHANGED <<queue, token, accepted, reported>>
      /\ balance \in [cache : Shown, request : Callers \cup {None}]
      /\ history \in [cache : Shown, request : Callers \cup {None}, generation : Nat]
      /\ call' = [c \in Callers |->
            IF c \in TokenWaiters \/ call[c].on \in TokenWaiters
            THEN Ended(call[c], Uncached) ELSE call[c]]
      /\ history' = [history EXCEPT !.request = IF @ \in TokenWaiters THEN None ELSE @]
      /\ balance' = [balance EXCEPT !.request = IF @ \in TokenWaiters THEN None ELSE @]
    BY DEF TokenFails, Failing, ClientInv, TypeOK
<1>2. TokenWaiters \in SUBSET Callers /\ \A w \in TokenWaiters : call[w].stage = "token"
    BY DEF TokenWaiters
<1>3. ASSUME NEW w \in Callers, Over(TokenWaiters, w)
      PROVE  Outcome(call[w], call'[w])
    <2>1. call'[w] = Ended(call[w], Uncached) /\ call[w] \in Call /\ Uncached \in Shown
        BY <1>1, <1>3 DEF Over, Shown
    <2>2. call[w].on = None => call[w].op # "history"
        <3>1. None \notin Callers /\ WaitKept(w)
            BY CallerFacts
        <3>2. call[w].on = None => call[w].stage = "token"
            BY <1>2, <1>3, <3>1 DEF Over
        <3> QED
            BY <3>1, <3>2 DEF WaitKept, Busy
    <2> QED
        BY <2>1, <2>2, EndedOutcome
<1>4. \A w \in Callers : ~Over(TokenWaiters, w) => call'[w] = call[w]
    BY <1>1 DEF Over
<1>5. /\ history' \in [cache : Shown, request : Callers \cup {None}, generation : Nat]
      /\ history'.generation = history.generation /\ history'.cache = history.cache
      /\ history'.request = IF history.request \in TokenWaiters THEN None ELSE history.request
      /\ balance' \in [cache : Shown, request : Callers \cup {None}]
      /\ balance'.request = IF balance.request \in TokenWaiters THEN None ELSE balance.request
    BY <1>1
<1>6. TypeOK'
    <2>1. \A w \in Callers : call'[w] \in Call
        BY <1>1, <1>3, <1>4 DEF Outcome
    <2> QED
        BY <1>1, <1>5, <2>1 DEF ClientInv, TypeOK
<1> QED
    BY <1>1, <1>2, <1>3, <1>4, <1>5, <1>6, EndsKeep

LEMMA PageReadKeeps ==
    ASSUME ClientInv, NEW c \in Callers, PageRead(c)
    PROVE  ClientInv' /\ Steady
<1> DEFINE k == [call[c] EXCEPT !.pages = @ + 1, !.asOf = IF accepted < @ THEN accepted ELSE @]
           a == IF accepted < call[c].asOf THEN accepted ELSE call[c].asOf
<1>1. /\ call[c].stage = "sent" /\ ~Posting(c) /\ call \in [Callers -> Call]
      /\ UNCHANGED <<queue, token, accepted, reported>>
      /\ accepted' \in accepted..MaxPosts
    BY CallerFacts DEF PageRead, ClientInv, TypeOK
<1>2. /\ call[c].on = c /\ call[c].op # "submit" /\ call[c].asOf \in Nat /\ call[c] \in Call
      /\ accepted \in Nat /\ reported \in Nat /\ reported <= accepted /\ None # c
    BY <1>1, RunsAFetch, CallerFacts
<1>3. a \in Nat /\ a <= call[c].asOf /\ (a = call[c].asOf \/ reported <= a)
    BY <1>2
<1>4. k = [call[c] EXCEPT !.pages = @ + 1, !.asOf = a]
    OBVIOUS
<1>5. FetchEnds(c, k.asOf) \/
        (call' = [call EXCEPT ![c] = [k EXCEPT !.stage = "ready"]] /\ UNCHANGED <<balance, history>>)
    BY DEF PageRead
<1> HIDE DEF a, k
<1>6. k \in Call /\ k.asOf = a /\ k.op = call[c].op /\ k.on = c /\ k.posts = call[c].posts
      /\ k.begun = call[c].begun /\ k.generation = call[c].generation /\ k.stage = "sent"
    <2>1. call[c].pages + 1 \in Nat /\ a \in Shown
        BY <1>2, <1>3 DEF Call, Shown
    <2>2. k = [call[c] EXCEPT !.pages = call[c].pages + 1, !.asOf = a]
        BY <1>4
    <2> QED
        BY <1>1, <1>2, <2>1, <2>2 DEF Call
<1>7. CASE FetchEnds(c, a)
    <2>1. ASSUME NEW w \in Callers, call[w].on = c, call[w].op # "balance"
          PROVE  call[w].begun <= a
        <3>1. call[w].begun <= reported /\ call[w].begun <= call[c].asOf /\ call[w].begun \in Nat
            BY <1>2, <2>1, CallerFacts DEF ReadKept, Call
        <3> QED
            BY <1>2, <1>3, <3>1
    <2>2. call[c].op # "balance" /\ Cacheable(call[c]) => reported <= a
        BY <1>2, <1>3, CallerFacts DEF ReadKept, Cacheable
    <2>3. Good(c, a)
        BY <1>3, <2>1, <2>2 DEF Good
    <2> QED
        BY <1>1, <1>7, <2>3, FetchEndsKeeps
<1>8. CASE call' = [call EXCEPT ![c] = [k EXCEPT !.stage = "ready"]] /\ UNCHANGED <<balance, history>>
    <2> DEFINE n == [k EXCEPT !.stage = "ready"]
    <2>1. /\ n \in Call /\ n.asOf = a /\ n.op = call[c].op /\ n.on = c /\ n.posts = call[c].posts
          /\ n.begun = call[c].begun /\ n.generation = call[c].generation /\ n.stage = "ready"
        BY <1>6 DEF Call, Stages
    <2> HIDE DEF n
    <2>2. call'[c] = n /\ \A w \in Callers \ {c} : call'[w] = call[w]
        BY <1>1, <1>8 DEF n
    <2>3. call' = [call EXCEPT ![c] = n]
        BY <1>8 DEF n
    <2>4. Waits' /\ Entries' /\ Reads' /\ FreshHistory' /\ Steady
        BY <1>1, <1>2, <1>3, <1>8, <2>1, <2>2, MovesKeep DEF Busy
    <2>5. Turns'
        BY <1>1, <1>2, <2>1, <2>2, QueueSame
    <2>6. TypeOK'
        BY <1>1, <1>8, <2>1, <2>3 DEF ClientInv, TypeOK
    <2> QED
        BY <2>4, <2>5, <2>6 DEF ClientInv
<1> QED
    BY <1>5, <1>6, <1>7, <1>8

LEMMA RateLimitedKeeps ==
    ASSUME ClientInv, NEW c \in Callers, RateLimited(c)
    PROVE  ClientInv' /\ Steady
<1> DEFINE n == [call[c] EXCEPT !.stage = "pause", !.retried = TRUE]
<1>1. /\ call[c].stage = "sent" /\ ~Posting(c) /\ call \in [Callers -> Call] /\ call[c] \in Call
      /\ call' = [call EXCEPT ![c] = n]
      /\ UNCHANGED <<queue, token, balance, history, accepted, reported>>
    BY CallerFacts DEF RateLimited, Again, ClientInv, TypeOK
<1>2. /\ n \in Call /\ n.op = call[c].op /\ n.on = call[c].on /\ n.begun = call[c].begun
      /\ n.generation = call[c].generation /\ n.asOf = call[c].asOf /\ n.stage = "pause"
      /\ n.posts = call[c].posts
    BY <1>1 DEF Call, Stages
<1> HIDE DEF n
<1>3. call'[c] = n /\ \A w \in Callers \ {c} : call'[w] = call[w]
    BY <1>1
<1>4. Waits' /\ Entries' /\ Reads' /\ FreshHistory' /\ Steady
    BY <1>1, <1>2, <1>3, MovesKeep DEF Busy
<1>5. Turns'
    BY <1>1, <1>2, <1>3, QueueSame
<1>6. TypeOK'
    BY <1>1, <1>2 DEF ClientInv, TypeOK
<1> QED
    BY <1>4, <1>5, <1>6 DEF ClientInv

LEMMA RetryKeeps ==
    ASSUME ClientInv, NEW c \in Callers, Retry(c)
    PROVE  ClientInv' /\ Steady
<1> DEFINE n == [call[c] EXCEPT !.stage = "queued"]
           order == <<c>>
<1>1. /\ call[c].stage = "pause" /\ call \in [Callers -> Call] /\ call[c] \in Call
      /\ call' = [call EXCEPT ![c] = n] /\ queue \in Seq(Callers)
      /\ queue' = Append(queue, c)
      /\ UNCHANGED <<token, balance, history, accepted, reported>>
    BY CallerFacts DEF Retry, ClientInv, TypeOK
<1>2. /\ n \in Call /\ n.op = call[c].op /\ n.on = call[c].on /\ n.begun = call[c].begun
      /\ n.generation = call[c].generation /\ n.asOf = call[c].asOf /\ n.stage = "queued"
      /\ n.posts = call[c].posts
    BY <1>1 DEF Call, Stages
<1> HIDE DEF n
<1>3. call'[c] = n /\ \A w \in Callers \ {c} : call'[w] = call[w]
    BY <1>1
<1>4. Waits' /\ Entries' /\ Reads' /\ FreshHistory' /\ Steady
    BY <1>1, <1>2, <1>3, MovesKeep DEF Busy
<1>5. /\ queue' = queue \o order /\ order \in Seq(Callers)
      /\ \A i \in DOMAIN order : i = 1 /\ order[i] = c
    BY <1>1
<1> HIDE DEF order
<1>6. Turns' /\ queue' \in Seq(Callers)
    BY <1>1, <1>2, <1>3, <1>5, QueueGrows
<1>7. TypeOK'
    BY <1>1, <1>2, <1>6 DEF ClientInv, TypeOK
<1> QED
    BY <1>4, <1>6, <1>7 DEF ClientInv

LEMMA RequestFailsKeeps ==
    ASSUME ClientInv, NEW c \in Callers, RequestFails(c)
    PROVE  ClientInv' /\ Steady
<1>1. /\ call[c].stage \in {"ready", "sent"} /\ Throws(c)
      /\ UNCHANGED <<queue, token, reported>>
      /\ accepted' \in accepted..MaxPosts
    BY CallerFacts DEF RequestFails
<1> QED
    BY <1>1, ThrowsKeeps

(* A cache or the token changes by itself. *)
LEMMA ExpiryKeeps ==
    ASSUME ClientInv, CacheExpires \/ TokenChanges \/ UNCHANGED vars
    PROVE  ClientInv' /\ Steady
<1>1. /\ UNCHANGED <<call, queue, accepted, reported>> /\ token' \in Tokens
      /\ history \in [cache : Shown, request : Callers \cup {None}, generation : Nat]
      /\ balance \in [cache : Shown, request : Callers \cup {None}]
    BY DEF CacheExpires, TokenChanges, vars, ClientInv, TypeOK
<1>2. /\ history' \in [cache : Shown, request : Callers \cup {None}, generation : Nat]
      /\ history'.generation = history.generation /\ history'.request = history.request
      /\ history'.cache \in {Uncached, history.cache}
    <2>1. history' = history \/ history' = [history EXCEPT !.cache = Uncached]
        BY DEF CacheExpires, TokenChanges, vars
    <2> QED
        BY <1>1, <2>1 DEF Shown
<1>3. /\ balance' \in [cache : Shown, request : Callers \cup {None}]
      /\ balance'.request = balance.request
    <2>1. balance' = balance \/ balance' = [balance EXCEPT !.cache = Uncached]
        BY DEF CacheExpires, TokenChanges, vars
    <2> QED
        BY <1>1, <2>1 DEF Shown
<1>4. TypeOK'
    BY <1>1, <1>2, <1>3 DEF ClientInv, TypeOK
<1>5. Waits' /\ Entries' /\ Reads'
    BY <1>1, <1>2, <1>3 DEF ClientInv, Waits, WaitKept, Entries, Reads, ReadKept
<1>6. Turns' /\ FreshHistory' /\ Steady
    BY <1>1, <1>3 DEF ClientInv, Turns, Posting, FreshHistory, Steady
<1> QED
    BY <1>4, <1>5, <1>6 DEF ClientInv

-----------------------------------------------------------------------------
(* The steps of the live client that are its own.                               *)
LEMMA LiveBeginKeeps ==
    ASSUME ClientInv, NEW c \in Callers, NEW op \in Operations, LiveBegin(c, op)
    PROVE  ClientInv' /\ balance' = balance
<1> DEFINE k == Begun(op)
<1>1. /\ call[c].stage \in {"free", "answered"}
      /\ UNCHANGED <<queue, token, balance, accepted, reported>>
      /\ TypeOK /\ reported \in Nat
    BY CallerFacts DEF LiveBegin, ClientInv
<1>2. /\ k \in Call /\ k.op = op /\ k.stage = "ready" /\ k.on = None /\ k.posts = 0
      /\ k.asOf = MaxPosts /\ k.begun = IF op = "submit" THEN 0 ELSE reported
    BY <1>1, BegunIs
<1>3. CASE op \in {"history", "cancel"}
    BY <1>1, <1>3, BeginHistoryKeeps DEF LiveBegin, LiveHistory
<1>4. CASE op = "submit"
    <2> DEFINE n == IF OrderEnabled THEN k ELSE Ended(k, Uncached)
    <2>1. Starts(c, n) /\ history' = history
        BY <1>4 DEF LiveBegin, LiveSubmit, Starts
    <2> HIDE DEF k
    <2>2. Fresh(n)
        <3>1. CASE OrderEnabled
            BY <1>1, <1>2, <1>4, <3>1 DEF Fresh
        <3>2. CASE ~OrderEnabled
            <4>1. n = Ended(k, Uncached) /\ Uncached \in Shown
                BY <3>2 DEF Shown
            <4> HIDE DEF n
            <4> QED
                BY <1>1, <1>2, <1>4, <4>1, EndedIs DEF Fresh
        <3> QED
            BY <3>1, <3>2
    <2> HIDE DEF n
    <2> QED
        BY <1>1, <2>1, <2>2, BeginFresh
<1>5. CASE op = "balance"
    <2> DEFINE n == [k EXCEPT !.on = c]
    <2>1. Starts(c, n) /\ history' = history
        BY <1>5 DEF LiveBegin, LiveBalance, Starts
    <2> HIDE DEF k
    <2>2. n \in Call /\ n.posts = 0 /\ n.begun = reported /\ n.stage = "ready" /\ n.op = op
          /\ n.on = c /\ n.asOf = MaxPosts
        BY <1>2, <1>5 DEF Call
    <2> HIDE DEF n
    <2>3. NewCall(n, c)
        BY <1>1, <1>5, <2>2 DEF Fetching, NewCall
    <2>4. TypeOK'
        BY <1>1, <2>1, <2>2 DEF TypeOK, Starts
    <2>5. history'.cache = history.cache /\ history'.generation = history.generation
          /\ history'.request = history.request /\ balance'.request = balance.request
        BY <1>1, <2>1
    <2> QED
        BY <1>1, <2>1, <2>3, <2>4, <2>5, BeginsKeep
<1> QED
    BY <1>3, <1>4, <1>5 DEF Operations

(* No balance of the live client is shared. *)
OwnBalances ==
    /\ balance.request = None
    /\ \A w \in Callers : call[w].op = "balance" => call[w].on \in {None, w}

LEMMA LiveBeginOwn ==
    ASSUME ClientInv, OwnBalances, NEW c \in Callers, NEW op \in Operations, LiveBegin(c, op)
    PROVE  OwnBalances'
<1>1. balance' = balance /\ TypeOK /\ call \in [Callers -> Call]
    BY DEF LiveBegin, ClientInv, TypeOK
<1>2. \A w \in Callers \ {c} : call'[w] = call[w]
    BY <1>1 DEF LiveBegin, LiveHistory, BeginHistory, LiveBalance, LiveSubmit, Operations
<1>3. call'[c].op = "balance" => call'[c].on \in {None, c}
    <2>1. CASE op = "balance"
        <3>1. call'[c] = [Begun("balance") EXCEPT !.on = c] /\ Begun("balance") \in Call
            BY <1>1, <2>1, BegunIs DEF LiveBegin, LiveBalance
        <3> QED
            BY <3>1 DEF Call
    <2>2. CASE op = "submit"
        <3>1. call'[c] \in {Begun("submit"), Ended(Begun("submit"), Uncached)}
            BY <1>1, <2>2 DEF LiveBegin, LiveSubmit
        <3>2. Begun("submit") \in Call /\ Begun("submit").op = "submit"
            BY <1>1, <2>2, BegunIs
        <3>3. Ended(Begun("submit"), Uncached).op = "submit"
            BY <3>2, EndedIs DEF Shown
        <3> QED
            BY <3>1, <3>2, <3>3
    <2>3. CASE op \in {"history", "cancel"}
        <3> DEFINE k == [Begun(op) EXCEPT !.generation = history.generation]
        <3>1. k \in Call /\ k.op = op /\ history.cache \in Shown
            BY <1>1, BegunIs DEF Call, TypeOK
        <3>2. \/ call'[c] \in Checked(k, history.cache)
              \/ call'[c] = [k EXCEPT !.stage = "joined", !.on = history.request]
              \/ call'[c] = [k EXCEPT !.on = c]
            BY <1>1, <2>3 DEF LiveBegin, LiveHistory, BeginHistory
        <3> HIDE DEF k
        <3>3. ASSUME call'[c] \in Checked(k, history.cache)
              PROVE  call'[c].op = op
            <4>1. CASE call'[c] = Ended(k, history.cache)
                BY <3>1, <4>1, EndedIs
            <4>2. CASE call'[c] = [k EXCEPT !.stage = "ready", !.asOf = history.cache, !.on = None]
                BY <3>1, <4>2 DEF Call
            <4> QED
                BY <3>3, <4>1, <4>2 DEF Checked
        <3>4. call'[c].op = op
            BY <3>1, <3>2, <3>3 DEF Call
        <3> QED
            BY <2>3, <3>4
    <2> QED
        BY <2>1, <2>2, <2>3 DEF Operations
<1> QED
    BY <1>1, <1>2, <1>3 DEF OwnBalances

LEMMA SteadyOwn ==
    ASSUME OwnBalances, Steady
    PROVE  OwnBalances'
BY DEF OwnBalances, Steady

LEMMA LivePageReadKeeps ==
    ASSUME ClientInv, OwnBalances, NEW c \in Callers, LivePageRead(c)
    PROVE  ClientInv' /\ OwnBalances'
<1>1. CASE PageRead(c)
    BY <1>1, PageReadKeeps, SteadyOwn
<1>2. CASE call[c].op = "balance" /\ ~PageRead(c)
    <2> DEFINE k == [call[c] EXCEPT !.pages = @ + 1, !.asOf = IF accepted < @ THEN accepted ELSE @]
               a == IF accepted < call[c].asOf THEN accepted ELSE call[c].asOf
    <2>1. /\ call[c].stage = "sent" /\ ~Posting(c) /\ call \in [Callers -> Call]
          /\ UNCHANGED <<queue, token, balance, history, accepted, reported>>
          /\ \/ call' = [call EXCEPT ![c] = Ended(k, k.asOf)]
             \/ call' = [call EXCEPT ![c] = [k EXCEPT !.stage = "ready"]]
        BY <1>2 DEF LivePageRead, Posting, ClientInv, TypeOK
    <2>2. /\ call[c].on = c /\ call[c].asOf \in Nat /\ call[c] \in Call
          /\ accepted \in Nat /\ reported \in Nat /\ reported <= accepted /\ None # c
          /\ accepted' \in accepted..MaxPosts
        BY <2>1, RunsAFetch, CallerFacts
    <2>3. a \in Nat /\ (a = call[c].asOf \/ reported <= a)
        BY <2>2
    <2>4. k = [call[c] EXCEPT !.pages = @ + 1, !.asOf = a]
        OBVIOUS
    <2> HIDE DEF a, k
    <2>5. k \in Call /\ k.asOf = a /\ k.op = "balance" /\ k.on = c /\ k.posts = call[c].posts
          /\ k.begun = call[c].begun /\ k.generation = call[c].generation /\ k.stage = "sent"
        <3>1. call[c].pages + 1 \in Nat /\ a \in Shown
            BY <2>2, <2>3 DEF Call, Shown
        <3>2. k = [call[c] EXCEPT !.pages = call[c].pages + 1, !.asOf = a]
            BY <2>4
        <3> QED
            BY <1>2, <2>1, <2>2, <3>1, <3>2 DEF Call
    <2>6. CASE call' = [call EXCEPT ![c] = Ended(k, k.asOf)]
        <3> DEFINE n == Ended(k, k.asOf)
        <3>1. n \in Call /\ n.op = "balance" /\ n.begun = call[c].begun /\ n.stage = "answered"
              /\ n.on = None /\ n.posts = 0
            BY <2>3, <2>5, EndedIs DEF Shown
        <3> HIDE DEF n
        <3>2. call'[c] = n /\ \A w \in Callers \ {c} : call'[w] = call[w]
            BY <2>1, <2>6 DEF n
        <3>3. \A w \in Callers : Over({c}, w) <=> w = c
            <4>1. ASSUME NEW w \in Callers, call[w].on = c
                  PROVE  w = c
                <5>1. call[w].op = "balance"
                    BY <1>2, <2>2, <4>1, CallerFacts DEF WaitKept
                <5> QED
                    BY <2>2, <4>1, <5>1 DEF OwnBalances
            <4> QED
                BY <4>1 DEF Over
        <3>4. Outcome(call[c], n)
            BY <1>2, <3>1 DEF Outcome
        <3>5. TypeOK'
            BY <2>1, <2>2, <2>6, <3>1 DEF ClientInv, TypeOK, n
        <3>6. /\ balance'.request # None => balance'.request = balance.request /\ balance.request \notin {c}
              /\ history'.request # None => history'.request = history.request /\ history.request \notin {c}
              /\ history'.generation = history.generation /\ history'.cache = history.cache
            BY <1>2, <2>1 DEF ClientInv, Entries, OwnBalances
        <3>7. ClientInv' /\ Steady
            BY <2>1, <3>2, <3>3, <3>4, <3>5, <3>6, EndsKeep
        <3> QED
            BY <3>7, SteadyOwn
    <2>7. CASE call' = [call EXCEPT ![c] = [k EXCEPT !.stage = "ready"]]
        <3> DEFINE n == [k EXCEPT !.stage = "ready"]
        <3>1. /\ n \in Call /\ n.asOf = a /\ n.op = call[c].op /\ n.on = c
              /\ n.posts = call[c].posts /\ n.begun = call[c].begun
              /\ n.generation = call[c].generation /\ n.stage = "ready"
            BY <1>2, <2>5 DEF Call, Stages
        <3>2. call' = [call EXCEPT ![c] = n]
            BY <2>7
        <3> HIDE DEF n
        <3>3. call'[c] = n /\ \A w \in Callers \ {c} : call'[w] = call[w]
            BY <2>1, <3>2
        <3>4. Waits' /\ Entries' /\ Reads' /\ FreshHistory' /\ Steady
            BY <2>1, <2>2, <2>3, <3>1, <3>3, MovesKeep DEF Busy
        <3>5. Turns'
            BY <2>1, <2>2, <3>1, <3>3, QueueSame
        <3>6. TypeOK'
            BY <2>1, <3>1, <3>2 DEF ClientInv, TypeOK
        <3>7. ClientInv'
            BY <3>4, <3>5, <3>6 DEF ClientInv
        <3> QED
            BY <3>4, <3>7, SteadyOwn
    <2> QED
        BY <2>1, <2>6, <2>7
<1> QED
    BY <1>1, <1>2 DEF LivePageRead

-----------------------------------------------------------------------------
LEMMA InitKeeps == Init => ClientInv /\ OwnBalances
<1> SUFFICES ASSUME Init
             PROVE  ClientInv /\ OwnBalances
    OBVIOUS
<1>1. /\ Free \in Call /\ Free.on = None /\ Free.stage = "free" /\ Free.op = "balance"
      /\ Free.posts = 0 /\ Free.begun = 0
    BY DEF Free, Call, Operations, Stages, Shown
<1>2. call \in [Callers -> Call] /\ \A c \in Callers : call[c] = Free
    BY <1>1 DEF Init
<1>3. /\ history = [cache |-> Uncached, request |-> None, generation |-> 0]
      /\ balance = [cache |-> Uncached, request |-> None]
      /\ queue = <<>> /\ token \in Tokens /\ accepted = 0 /\ reported = 0
    BY DEF Init
<1>4. TypeOK
    BY <1>2, <1>3, ClientAssumption DEF TypeOK, Shown
<1>5. Waits /\ Entries /\ Reads
    BY <1>1, <1>2, <1>3, ClientAssumption
       DEF Waits, WaitKept, Entries, Reads, ReadKept, Busy
<1>6. Turns /\ FreshHistory
    BY <1>1, <1>2, <1>3 DEF Turns, Posting, FreshHistory
<1>7. OwnBalances
    BY <1>1, <1>2, <1>3 DEF OwnBalances
<1> QED
    BY <1>4, <1>5, <1>6, <1>7 DEF ClientInv

LEMMA NextKeeps == ClientInv /\ [Next]_vars => ClientInv'
<1> SUFFICES ASSUME ClientInv, [Next]_vars
             PROVE  ClientInv'
    OBVIOUS
<1>1. ASSUME NEW c \in Callers, NEW op \in Operations, Begin(c, op)
      PROVE  ClientInv'
    BY <1>1, BeginKeeps
<1>2. ASSUME NEW c \in Callers, Authorize(c) \/ PageRead(c) \/ RateLimited(c) \/ Retry(c)
      PROVE  ClientInv'
    BY <1>2, AuthorizeKeeps, PageReadKeeps, RateLimitedKeeps, RetryKeeps
<1>3. ASSUME NEW c \in Callers, RequestFails(c) \/ Accepted(c)
      PROVE  ClientInv'
    BY <1>3, RequestFailsKeeps, AcceptedKeeps
<1>4. CASE TokenIssued \/ TokenFails \/ Send
    BY <1>4, TokenIssuedKeeps, TokenFailsKeeps, SendKeeps
<1>5. CASE CacheExpires \/ TokenChanges \/ UNCHANGED vars
    BY <1>5, ExpiryKeeps
<1> QED
    BY <1>1, <1>2, <1>3, <1>4, <1>5 DEF Next

LEMMA LiveNextKeeps ==
    ClientInv /\ OwnBalances /\ [LiveNext]_vars => ClientInv' /\ OwnBalances'
<1> SUFFICES ASSUME ClientInv, OwnBalances, [LiveNext]_vars
             PROVE  ClientInv' /\ OwnBalances'
    OBVIOUS
<1>1. ASSUME NEW c \in Callers, NEW op \in Operations, LiveBegin(c, op)
      PROVE  ClientInv' /\ OwnBalances'
    BY <1>1, LiveBeginKeeps, LiveBeginOwn
<1>2. ASSUME NEW c \in Callers,
             LiveAuthorize(c) \/ LiveRateLimited(c) \/ LiveRetry(c) \/ LiveRequestFails(c) \/ LiveAccepted(c)
      PROVE  ClientInv' /\ OwnBalances'
    <2>1. ClientInv' /\ Steady
        BY <1>2, AuthorizeKeeps, RateLimitedKeeps, RetryKeeps, RequestFailsKeeps, AcceptedKeeps
           DEF LiveAuthorize, LiveRateLimited, LiveRetry, LiveRequestFails, LiveAccepted
    <2> QED
        BY <2>1, SteadyOwn
<1>3. ASSUME NEW c \in Callers, LivePageRead(c)
      PROVE  ClientInv' /\ OwnBalances'
    BY <1>3, LivePageReadKeeps
<1>4. CASE LiveTokenIssued \/ LiveTokenFails \/ LiveSend
    <2>1. ClientInv' /\ Steady
        BY <1>4, TokenIssuedKeeps, TokenFailsKeeps, SendKeeps
           DEF LiveTokenIssued, LiveTokenFails, LiveSend
    <2> QED
        BY <2>1, SteadyOwn
<1>5. CASE CacheExpires \/ TokenChanges \/ UNCHANGED vars
    BY <1>5, ExpiryKeeps, SteadyOwn
<1> QED
    BY <1>1, <1>2, <1>3, <1>4, <1>5 DEF LiveNext, LiveStep

(* Whatever the callers ask and in which order their awaits return: who waits,  *)
(* waits for a fetch that runs and reads pages new enough for all who wait; the *)
(* queue holds each caller once (getDailyOrders, enqueueAuthorizedRequest of    *)
(* kisPaperTradingClient.js).                                                   *)
THEOREM PaperInvariant == Spec => []ClientInv
<1>1. Init => ClientInv
    BY InitKeeps
<1> QED
    BY <1>1, NextKeeps, PTL DEF Spec

(* The same of kisLiveTradingClient.js, whose balances are read one by one.     *)
THEOREM LiveInvariant == LiveSpec => [](ClientInv /\ OwnBalances)
<1>1. Init => ClientInv /\ OwnBalances
    BY InitKeeps
<1> QED
    BY <1>1, LiveNextKeeps, PTL DEF LiveSpec

(* A history is never older than what was reported accepted when it was asked   *)
(* for, for any number of callers, mutations and pages: the generation of       *)
(* invalidateDailyOrdersCache keeps every older fetch out.                      *)
THEOREM PaperFresh == Spec => []FreshHistory
<1>1. ClientInv => FreshHistory
    BY DEF ClientInv
<1> QED
    BY <1>1, PaperInvariant, PTL

(* The history of the live client is as fresh (kisLiveTradingClient.js).        *)
THEOREM LiveFresh == LiveSpec => []FreshHistory
<1>1. ClientInv /\ OwnBalances => FreshHistory
    BY DEF ClientInv
<1> QED
    BY <1>1, LiveInvariant, PTL

(* No mutation is sent twice: the retry of authorizedRequest is for reads, and  *)
(* a caller is in the queue of enqueueAuthorizedRequest once.                   *)
THEOREM PaperPostsOnce == Spec => []PostOnce
<1>1. ClientInv => PostOnce
    BY DEF ClientInv, Turns, PostOnce
<1> QED
    BY <1>1, PaperInvariant, PTL

(* Nor does the live client send a mutation twice.                              *)
THEOREM LivePostsOnce == LiveSpec => []PostOnce
<1>1. ClientInv /\ OwnBalances => PostOnce
    BY DEF ClientInv, Turns, PostOnce
<1> QED
    BY <1>1, LiveInvariant, PTL
=============================================================================
