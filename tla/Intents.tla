------------------------------ MODULE Intents ------------------------------
(***************************************************************************)
(* What a local utterance is understood as: match_intent of the legacy     *)
(* wake loop (services/intent.py) and IntentMatcher of roamerd             *)
(* (policy_engine.py), which is to take its place.                         *)
(*                                                                         *)
(* An utterance is taken apart as far as the two tell it apart: words      *)
(* before the rest, an amount of time with its unit and "later", with      *)
(* "remind me", "remind" or neither, "go to" in front, and the words of    *)
(* rules that it contains.  A numeral is the sequence of its characters:   *)
(* 0 .. 9, Ten, and Two (liang, the other word for 2); an Arabic figure is *)
(* one character, and so is a decimal, whatever its fraction.  Figures and *)
(* characters are not mixed, and what is to be said later is left out.     *)
(***************************************************************************)
EXTENDS Naturals, Sequences

Ten == 10
Two == 11
Characters == 0 .. 11
Figure(n)  == 100 + n  \* bound: below a hundred
Decimal(n) == 200 + n
NotRead == 1000
Longest == 3           \* bound: the characters of a numeral

-----------------------------------------------------------------------------
(* Numerals. *)

\* _CN_NUMERAL, and the digits of policy_engine with value.isdigit().
LegacyDigit(c)  == IF c = Two THEN 2 ELSE IF c \in 0 .. 9 THEN c ELSE NotRead
RoamerdDigit(c) == IF c \in 1 .. 9 THEN c ELSE IF c >= Figure(0) THEN c % 100 ELSE 0

Sum(tens, ones) == IF NotRead \in {tens, ones} THEN NotRead ELSE tens * 10 + ones

\* intent._extract_reminder_slots and _parse_cn_number: a figure with or without a
\* fraction, or a word of up to three characters.
LegacyNumber(s) ==
    IF Len(s) = 1 /\ s[1] >= Figure(0) THEN s[1] % 100
    ELSE IF s = <<Ten>> THEN 10
    ELSE IF Len(s) = 2 /\ s[1] = Ten THEN Sum(1, LegacyDigit(s[2]))
    ELSE IF Len(s) = 2 /\ s[2] = Ten THEN Sum(LegacyDigit(s[1]), 0)
    ELSE IF Len(s) = 3 /\ \E i \in 1 .. 3 : s[i] = Ten THEN Sum(LegacyDigit(s[1]), LegacyDigit(s[3]))
    ELSE IF Len(s) = 1 THEN LegacyDigit(s[1])
    ELSE NotRead

\* digits.get of a part of the numeral, which may be longer than a digit.
RoamerdPart(s) == IF Len(s) = 1 THEN RoamerdDigit(s[1]) ELSE 0

\* The numerals of the pattern in _match_reminder.
RoamerdHas(s) == s # <<>> /\ \A i \in DOMAIN s : s[i] \in (1 .. Ten) \union (Figure(0) .. Figure(99))

\* Mutant: what is before the ten is its own digit.
RoamerdNumberDigits(s) ==
    IF \E i \in DOMAIN s : s[i] = Ten
    THEN LET at == CHOOSE i \in DOMAIN s : s[i] = Ten /\ \A j \in 1 .. i - 1 : s[j] # Ten
         IN  IF Len(s) = 1 THEN 10
             ELSE IF at = 1 THEN 10 + RoamerdDigit(s[Len(s)])
             ELSE RoamerdPart(SubSeq(s, 1, at - 1)) + RoamerdPart(SubSeq(s, at + 1, Len(s)))
    ELSE RoamerdPart(s)

\* policy_engine._parse_cn_number: what cannot be read counts for nothing.
RoamerdNumber(s) ==
    IF \E i \in DOMAIN s : s[i] = Ten
    THEN LET at == CHOOSE i \in DOMAIN s : s[i] = Ten /\ \A j \in 1 .. i - 1 : s[j] # Ten
         IN  IF Len(s) = 1 THEN 10
             ELSE IF at = 1 THEN 10 + RoamerdDigit(s[Len(s)])
             ELSE RoamerdPart(SubSeq(s, 1, at - 1)) * 10 + RoamerdPart(SubSeq(s, at + 1, Len(s)))
    ELSE RoamerdPart(s)

-----------------------------------------------------------------------------
(* Rules.  The words of a rule stand for its patterns. *)

LegacyAllowed == {"time.now", "sense", "watch", "motion.home", "motion.position", "remind.schedule"}
RoamerdAllowed == LegacyAllowed \union {"emergency_stop", "hearing.listen", "motion.goto", "speech.speak"}

Rule(action, words) == [action |-> action, words |-> words]

\* _default_local_intents, in its order.
DefaultRules == <<Rule("emergency_stop", {"stop"}), Rule("motion.home", {"home"}),
                  Rule("time.now", {"time"}), Rule("sense", {"where", "state"}),
                  Rule("watch", {"look"}), Rule("motion.position", {"whereabouts", "position"})>>

\* The first rule that decides: one whose action is not allowed ends the search,
\* whatever the utterance says.
Deciding(rules, allowed, words) ==
    {i \in DOMAIN rules : rules[i].action \notin allowed \/ rules[i].words \intersect words # {}}

RuleAction(rules, allowed, words) ==
    LET hits == Deciding(rules, allowed, words)
        first == CHOOSE i \in hits : \A j \in hits : i <= j
    IN  IF hits = {} THEN "none"
        ELSE IF rules[first].action \in allowed THEN rules[first].action ELSE "invalid"

\* PolicyRuleStore: an empty list of rules is no list.
Store(rules) == IF rules = <<>> THEN DefaultRules ELSE rules

-----------------------------------------------------------------------------
(* Utterances. *)

\* fen and shi, the short words for minute and hour, stand for the Latin units as well.
Seconds == [second |-> 1, minute |-> 60, hour |-> 3600, fen |-> 60, shi |-> 3600]
RoamerdUnits == {"second", "minute", "hour"}

Understood(action, delay) == [action |-> action, delay |-> delay]

\* re.search: the last three characters of a numeral that is longer, wherever the
\* words are, and also when nobody is to be reminded.
LegacyAmount(u) ==
    SubSeq(u.amount, IF Len(u.amount) > 3 THEN Len(u.amount) - 2 ELSE 1, Len(u.amount))

Timed(u) == u.amount # <<>> /\ LegacyNumber(LegacyAmount(u)) # NotRead

\* match_intent.
Legacy(u, rules) ==
    IF Timed(u) THEN Understood("remind.schedule", LegacyNumber(LegacyAmount(u)) * Seconds[u.unit])
    ELSE Understood(RuleAction(rules, LegacyAllowed, u.words), 0)

\* _match_reminder and _match_goto: re.fullmatch.
IsReminder(u) == /\ ~u.before /\ ~u.goto /\ u.remind = "me"
                 /\ RoamerdHas(u.amount) /\ u.unit \in RoamerdUnits
IsGoto(u) == ~u.before /\ u.goto

\* IntentMatcher.match.
Roamerd(u, rules) ==
    IF IsReminder(u) THEN Understood("remind.schedule", RoamerdNumber(u.amount) * Seconds[u.unit])
    ELSE IF IsGoto(u) THEN Understood("motion.goto", 0)
    ELSE Understood(RuleAction(Store(rules), RoamerdAllowed, u.words), 0)

-----------------------------------------------------------------------------
(* What the two have to agree on. *)

Numerals == UNION {[1 .. n -> Characters] : n \in 1 .. Longest}

\* How a number below a hundred is said.
Spoken(n) ==
    LET tens == n \div 10
        ones == n % 10
        after == IF ones = 0 THEN <<>> ELSE <<ones>>
    IN  IF n < 10 THEN {after} \union (IF n = 2 THEN {<<Two>>} ELSE {})
        ELSE {<<tens, Ten>> \o after} \union (IF tens = 1 THEN {<<Ten>> \o after} ELSE {})

Words == {"stop", "home", "where", "whereabouts", "look"}
Amounts == {<<>>, <<3>>, <<Two>>, <<2, Ten>>, <<1, 2>>, <<Figure(5)>>, <<Decimal(5)>>}
Utterances == [before : BOOLEAN, amount : Amounts, unit : {"second", "minute", "fen"},
               remind : {"me", "bare", "none"}, goto : BOOLEAN,
               words : {W \in SUBSET Words : "whereabouts" \in W => "where" \in W}]

\* The rules that the wake loop may have as well, in their places.
Shared(rules) == [i \in {j \in DOMAIN rules : rules[j].action \in LegacyAllowed} |-> rules[i]]

\* Each program reads what it reads of a number as it is said: the wake loop all of
\* it, roamerd what has no liang.  Of any other numeral that roamerd takes, the two
\* make the same delay if the wake loop reads it at all.
DelaysRight ==
    /\ \A n \in 1 .. 99 : \A s \in Spoken(n) \union {<<Figure(n)>>} :
          /\ LegacyNumber(s) = n
          /\ IF s = <<Two>> THEN ~RoamerdHas(s) ELSE RoamerdHas(s) /\ RoamerdNumber(s) = n
    /\ \A s \in Numerals :
          RoamerdHas(s) => (RoamerdNumber(s) = LegacyNumber(s) <=> LegacyNumber(s) # NotRead)

\* With the same rules the two understand the same action and delay of an utterance
\* exactly when both hear a reminder in it, or neither does and it is for roamerd
\* nothing, or an action that both can do.  They differ on all else: a reminder with
\* liang, a decimal, a short unit, without "me", or within a longer utterance is one for
\* the wake loop alone; a numeral that is no number is a delay for roamerd alone; and so
\* are "go to" and its own actions; a rule that is refused ends the search.
SameUnderstanding(rules) ==
    \A u \in Utterances :
        Legacy(u, Shared(Store(rules))) = Roamerd(u, rules) <=>
            IF Timed(u) \/ IsReminder(u) THEN Timed(u) /\ IsReminder(u)
            ELSE Roamerd(u, rules).action \in LegacyAllowed \union {"none"}

\* The lists of rules that an update may bring: one of them has an action that
\* is not allowed, between two that are.
RuleLists == [default |-> DefaultRules,
              empty   |-> <<>>,
              bad     |-> <<DefaultRules[2], Rule("shell", {"look"}), DefaultRules[1]>>,
              other   |-> <<DefaultRules[6], DefaultRules[4], DefaultRules[1]>>]

Agreeing == {list \in DOMAIN RuleLists : DelaysRight /\ SameUnderstanding(RuleLists[list])}
=============================================================================
