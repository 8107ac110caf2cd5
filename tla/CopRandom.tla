------------------------------ MODULE CopRandom -----------------------------
(***************************************************************************)
(* RandomString of util/util.go, which makes the secret of a registration  *)
(* (cli/server/register.go): letters cut from the words of one random      *)
(* source that every request handler shares without a lock.                *)
(***************************************************************************)
EXTENDS Integers, Sequences, FiniteSets

CONSTANTS
    Goroutines,     \* the handlers that ask for a string
    WordBits,       \* the bits of an Int63: 63
    letterIdxBits,  \* the bits of a letter's index: 6
    LetterCount,    \* len(letterBytes): 52
    Words,          \* the words the source may produce, each by its bits
    StringLength,   \* n
    MaxDraws        \* bound on the words a handler draws

ASSUME RandomAssumption ==
    /\ WordBits \in Nat /\ letterIdxBits \in 1..WordBits
    /\ LetterCount \in 1..(2 ^ letterIdxBits)
    /\ Words \subseteq [0..(WordBits - 1) -> {0, 1}]
    /\ StringLength \in Nat /\ MaxDraws \in Nat

VARIABLES
    words,    \* what the source has produced
    rpc,      \* the next step of each handler
    cache,    \* the bits it has not used
    remain,   \* the letters left in them
    str,      \* the letters it has, the last of the string first
    drawn,    \* history: the positions in words of the words it was given
    meets,    \* the words produced while it is inside the source
    raced     \* history: two handlers have been inside the source at once

randomVars == <<words, rpc, cache, remain, str, drawn, meets, raced>>

(* Mutant: the bits left over count as a letter. *)
letterIdxMaxRoundedUp == (WordBits + letterIdxBits - 1) \div letterIdxBits

letterIdxMax == WordBits \div letterIdxBits

(* letterIdxBits bits of a word, from bit "low" up, and their number. *)
Group(bits, low) == [i \in 0..(letterIdxBits - 1) |-> bits[low + i]]

Number(group) ==
    LET upTo[i \in 0..letterIdxBits] ==
            IF i = 0 THEN 0 ELSE upTo[i - 1] + group[i - 1] * 2 ^ (i - 1)
    IN  upTo[letterIdxBits]

(* cache & letterIdxMask *)
LetterIndex(bits) == Number(Group(bits, 0))

(* cache >> letterIdxBits *)
Shifted(bits) ==
    [i \in 0..(WordBits - 1) |->
        IF i + letterIdxBits < WordBits THEN bits[i + letterIdxBits] ELSE 0]

RandomInit ==
    /\ words = <<>> /\ raced = FALSE
    /\ rpc = [g \in Goroutines |-> "call"]
    /\ cache = [g \in Goroutines |-> [i \in 0..(WordBits - 1) |-> 0]]
    /\ remain = [g \in Goroutines |-> 0]
    /\ str = [g \in Goroutines |-> <<>>] /\ drawn = [g \in Goroutines |-> <<>>]
    /\ meets = [g \in Goroutines |-> {}]

Inside == {g \in Goroutines : rpc[g] = "int63"}

(* Enter rnd.Int63(), at the head of the loop or when no letter is left.   *)
EnterSource(g) ==
    /\ \/ rpc[g] = "call"
       \/ rpc[g] = "loop" /\ Len(str[g]) < StringLength /\ remain[g] = 0
    /\ rpc' = [rpc EXCEPT ![g] = "int63"]
    /\ meets' = [meets EXCEPT ![g] = {}]
    /\ raced' = (raced \/ Inside # {})
    /\ UNCHANGED <<words, cache, remain, str, drawn>>

(* Mutant: the source starts over in every call. *)
GivenReseeded(g) ==
    IF drawn[g] = <<>> /\ words # <<>> THEN {1} ELSE {Len(words) + 1}

(* The word handed to g is the next one or, as the source has no lock, one *)
(* that it produced for another handler in the meantime.                   *)
Given(g) == meets[g] \cup {Len(words) + 1}

(* cache, remain = rnd.Int63(), letterIdxMax *)
LeaveSource(g) ==
    /\ rpc[g] = "int63"
    /\ Len(drawn[g]) < MaxDraws
    /\ \E k \in Given(g), w \in Words :
          /\ k <= Len(words) => w = words[k]
          /\ words' = IF k <= Len(words) THEN words ELSE Append(words, w)
          /\ cache' = [cache EXCEPT ![g] = w]
          /\ drawn' = [drawn EXCEPT ![g] = Append(@, k)]
          /\ meets' = [h \in Goroutines |->
                IF h \in Inside \ {g} THEN meets[h] \cup {k} ELSE meets[h]]
    /\ remain' = [remain EXCEPT ![g] = letterIdxMax]
    /\ rpc' = [rpc EXCEPT ![g] = "loop"]
    /\ UNCHANGED <<str, raced>>

(* An index past the last letter is rejected. *)
LettersTaken(s, idx) == IF idx < LetterCount THEN Append(s, idx) ELSE s

(* One round of the loop. *)
TakeLetter(g) ==
    /\ rpc[g] = "loop" /\ Len(str[g]) < StringLength /\ remain[g] > 0
    /\ str' = [str EXCEPT ![g] = LettersTaken(@, LetterIndex(cache[g]))]
    /\ cache' = [cache EXCEPT ![g] = Shifted(@)]
    /\ remain' = [remain EXCEPT ![g] = @ - 1]
    /\ UNCHANGED <<words, rpc, drawn, meets, raced>>

ReturnString(g) ==
    /\ rpc[g] = "loop" /\ Len(str[g]) = StringLength
    /\ rpc' = [rpc EXCEPT ![g] = "done"]
    /\ UNCHANGED <<words, cache, remain, str, drawn, meets, raced>>

(* Every string is made, or its bound is reached. *)
RandomDone ==
    /\ \A g \in Goroutines :
          rpc[g] = "done" \/ (rpc[g] = "int63" /\ Len(drawn[g]) = MaxDraws)
    /\ UNCHANGED randomVars

RandomNext ==
    \/ \E g \in Goroutines :
          EnterSource(g) \/ LeaveSource(g) \/ TakeLetter(g) \/ ReturnString(g)
    \/ RandomDone

RandomSpec == RandomInit /\ [][RandomNext]_randomVars

-----------------------------------------------------------------------------
(* The places of letters in the words drawn by g: a draw, and one of the   *)
(* whole groups of letterIdxBits bits of its word, the low one first.      *)
WholeGroups == {j \in 0..WordBits : (j + 1) * letterIdxBits <= WordBits}
Places(g) == (1..Len(drawn[g])) \X WholeGroups

IndexAt(g, q) == Number(Group(words[drawn[g][q[1]]], q[2] * letterIdxBits))
IsLetter(g, q) == IndexAt(g, q) < LetterCount

Before(q, r) == q[1] < r[1] \/ (q[1] = r[1] /\ q[2] < r[2])

(* The letters of g are those at the places "from", in their order. *)
LettersAt(g, from) ==
    /\ \A n \in DOMAIN from :
          IsLetter(g, from[n]) /\ str[g][n] = IndexAt(g, from[n])
    /\ \A m, n \in DOMAIN from : m < n => Before(from[m], from[n])

(* Each letter of a string comes from bits of its own: the letters are the *)
(* indices below len(letterBytes) among the 6-bit groups of the words that *)
(* were drawn, in order, no group used twice, none skipped and none made   *)
(* of the bits left over.  So every letter is equally likely.              *)
LettersFromDraws ==
    \A g \in Goroutines : rpc[g] = "done" =>
        /\ Len(str[g]) = StringLength
        /\ \E from \in [1..StringLength -> Places(g)] :
              /\ LettersAt(g, from)
              /\ \A q \in Places(g), n \in 1..StringLength :
                    IsLetter(g, q) /\ Before(q, from[n]) =>
                        \E m \in 1..n : from[m] = q

(* No two secrets are made from the same word of the source, and none uses *)
(* a word twice, as long as no two handlers were inside the unlocked       *)
(* source at once.                                                         *)
DrawsDisjoint ==
    ~raced => \A g, h \in Goroutines :
        \A i \in DOMAIN drawn[g], j \in DOMAIN drawn[h] :
            drawn[g][i] = drawn[h][j] => g = h /\ i = j
=============================================================================
