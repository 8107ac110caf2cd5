------------------------ MODULE CopAlgorithmsProofs -------------------------
(***************************************************************************)
(* Theorems about CopCrypt, CopRandom and CopTCert: padding and random     *)
(* numbers for every block size, text and number of digits; the shared     *)
(* random source for every set of handlers; a batch of transaction         *)
(* certificates for every list of attribute names and every limit.         *)
(***************************************************************************)
EXTENDS CopTCert, CopCrypt, CopRandom, TLAPS

(* Zenon is tried first: most leaves are first-order, and to encode one    *)
(* for SMT takes long when its context is.                                 *)
USE ZenonT(3), SMTT(20), SMTT(30), ZenonT(20)

-----------------------------------------------------------------------------
(* CopCrypt. *)

(* A padding has at least one byte and fills the last block.               *)
LEMMA PadLengthBounds ==
  ASSUME NEW n \in Nat
  PROVE  /\ PadLength(n) \in 1..BlockSize
         /\ (n + PadLength(n)) % BlockSize = 0
  <1>1. n % BlockSize \in 0..(BlockSize - 1)
    BY CryptAssumption
  <1>2. PICK q \in Int : n = BlockSize * q + (n % BlockSize)
    <2>1. n \div BlockSize \in Int /\ n = BlockSize * (n \div BlockSize) + (n % BlockSize)
      BY CryptAssumption
    <2>2. QED
      BY <2>1
  <1>3. n + PadLength(n) = BlockSize * (q + 1)
    BY <1>1, <1>2, CryptAssumption DEF PadLength
  <1>4. (BlockSize * (q + 1)) % BlockSize = 0
    BY CryptAssumption
  <1>5. QED
    BY <1>1, <1>3, <1>4, CryptAssumption DEF PadLength

(* The padded form of a text: the text, then the padding.                  *)
LEMMA PaddedText ==
  ASSUME NEW s \in Seq(Bytes)
  PROVE  LET n == PadLength(Len(s))
             t == PKCS7Padding(s)
         IN  /\ t \in Seq(Bytes)
             /\ Len(t) = Len(s) + n
             /\ \A i \in 1..Len(s) : t[i] = s[i]
             /\ \A i \in (Len(s) + 1)..(Len(s) + n) : t[i] = n
  <1> DEFINE n == PadLength(Len(s))
             r == Repeat(n, n)
  <1>1. n \in 1..BlockSize /\ n \in Bytes /\ n \in Nat /\ Len(s) \in Nat
    <2>1. Len(s) \in Nat
      OBVIOUS
    <2>2. n \in 1..BlockSize
      BY <2>1, PadLengthBounds
    <2>3. QED
      BY <2>1, <2>2, CryptAssumption
  <1>2. r \in Seq(Bytes) /\ Len(r) = n /\ \A i \in 1..n : r[i] = n
    <2>1. r \in [1..n -> Bytes]
      BY <1>1 DEF Repeat
    <2>2. r \in Seq(Bytes) /\ Len(r) = n
      BY <2>1, <1>1
    <2>3. QED
      BY <2>2 DEF Repeat
  <1> HIDE DEF n, r
  <1>3. /\ s \o r \in Seq(Bytes)
        /\ Len(s \o r) = Len(s) + n
        /\ \A i \in 1..Len(s) : (s \o r)[i] = s[i]
        /\ \A i \in (Len(s) + 1)..(Len(s) + n) : (s \o r)[i] = n
    BY <1>1, <1>2
  <1>4. QED
    BY <1>3 DEF PKCS7Padding, n, r

(* PKCS7UnPadding returns the text that PKCS7Padding was given, for every  *)
(* text and every block size.                                              *)
THEOREM UnpadPad ==
  ASSUME NEW s \in Seq(Bytes)
  PROVE  PKCS7UnPadding(PKCS7Padding(s)) = s
  <1> DEFINE n == PadLength(Len(s))
             t == PKCS7Padding(s)
  <1>1. /\ t \in Seq(Bytes) /\ Len(t) = Len(s) + n
        /\ \A i \in 1..Len(s) : t[i] = s[i]
        /\ \A i \in (Len(s) + 1)..(Len(s) + n) : t[i] = n
    BY PaddedText
  <1>2. Len(s) \in Nat
    OBVIOUS
  <1>3. n \in 1..BlockSize
    BY <1>2, PadLengthBounds
  <1> HIDE DEF n, t
  <1>4. n \in Nat /\ n > 0 /\ n <= BlockSize
    BY <1>3, CryptAssumption
  <1>5. t[Len(t)] = n
    BY <1>1, <1>2, <1>4
  <1>6. PaddingValid(n) /\ PaddedBy(t, n)
    BY <1>1, <1>2, <1>4 DEF PaddingValid, PaddedBy
  <1>7. SubSeq(t, 1, Len(t) - n) = s
    <2>1. Len(t) - n = Len(s)
      BY <1>1, <1>2, <1>4
    <2>2. /\ SubSeq(t, 1, Len(s)) \in Seq(Bytes)
          /\ Len(SubSeq(t, 1, Len(s))) = Len(s)
          /\ \A i \in 1..Len(s) : SubSeq(t, 1, Len(s))[i] = s[i]
      BY <1>1, <1>2, <1>4
    <2>3. SubSeq(t, 1, Len(s)) = s
      BY <2>2
    <2>4. QED
      BY <2>1, <2>3
  <1>8. QED
    BY <1>5, <1>6, <1>7 DEF PKCS7UnPadding, t

(* A number between 0 and the upper bound is turned into one that is not   *)
(* below the lower bound, and stays below the upper one.                   *)
LEMMA GenNumberBounds ==
  ASSUME NEW lower \in Nat, NEW upper \in Nat, lower > 0,
         2 * lower <= upper, NEW r \in 0..(upper - 1)
  PROVE  /\ lower <= GenNumber(lower, upper, r)
         /\ GenNumber(lower, upper, r) < upper
  <1>1. CASE r + lower < upper
    <2>1. (r + lower) % upper = r + lower
      BY <1>1
    <2>2. QED
      BY <1>1, <2>1 DEF GenNumber
  <1>2. CASE r + lower >= upper
    <2>1. (r + lower) % upper = r + lower - upper
      BY <1>2
    <2>2. QED
      BY <1>2, <2>1 DEF GenNumber
  <1>3. QED
    BY <1>1, <1>2

(* A number with the remainder r is r more than a multiple.                *)
LEMMA ModOfSum ==
  ASSUME NEW q \in Int, NEW r \in 0..(BlockSize - 1)
  PROVE  (BlockSize * q + r) % BlockSize = r
  BY CryptAssumption

(* Quotient and remainder.                                                 *)
LEMMA DivMod ==
  ASSUME NEW k \in Int, NEW b \in Int, b > 0
  PROVE  k \div b \in Int /\ k = b * (k \div b) + (k % b)
  OBVIOUS

(* A text of whole blocks that PKCS7UnPadding accepts is the padded form   *)
(* of what it returns.                                                     *)
LEMMA PadUnpad ==
  ASSUME NEW t \in Seq(Bytes), Len(t) > 0, Len(t) % BlockSize = 0,
         PKCS7UnPadding(t) # NoText
  PROVE  /\ PKCS7Padding(PKCS7UnPadding(t)) = t
         /\ Len(PKCS7UnPadding(t)) < Len(t)
  <1> DEFINE n == t[Len(t)]
             s == SubSeq(t, 1, Len(t) - n)
  <1>1. Len(t) \in Nat /\ n \in Bytes /\ n \in Nat
    <2>1. Len(t) \in Nat /\ Len(t) \in 1..Len(t)
      OBVIOUS
    <2>2. t[Len(t)] \in Bytes
      BY <2>1
    <2>3. QED
      BY <2>1, <2>2, CryptAssumption
  <1>2. /\ PKCS7UnPadding(t) = s
        /\ n \in 1..BlockSize
        /\ \A i \in (Len(t) - n + 1)..Len(t) : t[i] = n
    BY <1>1 DEF PKCS7UnPadding, PaddingValid, PaddedBy
  <1> HIDE DEF n
  <1>3. PICK q \in Int : Len(t) = BlockSize * q
    <2>1. Len(t) \in Int /\ BlockSize \in Int /\ BlockSize > 0
      BY <1>1, CryptAssumption
    <2>2. /\ Len(t) \div BlockSize \in Int
          /\ Len(t) = BlockSize * (Len(t) \div BlockSize) + (Len(t) % BlockSize)
      BY ONLY <2>1, DivMod
    <2>3. BlockSize * (Len(t) \div BlockSize) + 0 =
             BlockSize * (Len(t) \div BlockSize)
      BY <2>1, <2>2
    <2>4. QED
      BY <2>2, <2>3
  <1>4. Len(t) = BlockSize * (q - 1) + BlockSize
    BY <1>3, CryptAssumption
  <1>5. BlockSize <= Len(t)
    <2>1. q >= 1
      <3> SUFFICES ASSUME q <= 0
                   PROVE  FALSE
        OBVIOUS
      <3>1. BlockSize * q <= 0
        BY CryptAssumption
      <3>2. QED
        BY <1>3, <3>1
    <2>2. BlockSize * (q - 1) >= 0
      BY <2>1, CryptAssumption
    <2>3. QED
      BY <2>2, <1>4, CryptAssumption
  <1>6. /\ s \in Seq(Bytes) /\ Len(s) = Len(t) - n
        /\ \A i \in 1..Len(s) : s[i] = t[i]
    BY <1>1, <1>2, <1>5, CryptAssumption
  <1> HIDE DEF s
  <1>7. PadLength(Len(s)) = n
    <2>1. CASE n = BlockSize
      <3>1. Len(s) = BlockSize * (q - 1) + 0
        BY <2>1, <1>4, <1>6, CryptAssumption
      <3>2. Len(s) % BlockSize = 0
        BY <3>1, ModOfSum, CryptAssumption
      <3>3. QED
        BY <3>2, <2>1, CryptAssumption DEF PadLength
    <2>2. CASE n # BlockSize
      <3>1. Len(s) = BlockSize * (q - 1) + (BlockSize - n)
        BY <1>4, <1>6, <1>2, CryptAssumption
      <3>2. BlockSize - n \in 0..(BlockSize - 1) /\ q - 1 \in Int
        BY <1>2, CryptAssumption
      <3>3. Len(s) % BlockSize = BlockSize - n
        BY <3>1, <3>2, ModOfSum
      <3>4. BlockSize - (BlockSize - n) = n
        BY <1>1, CryptAssumption
      <3>5. QED
        BY <3>3, <3>4 DEF PadLength
    <2>3. QED
      BY <2>1, <2>2
  <1>8. /\ PKCS7Padding(s) \in Seq(Bytes)
        /\ Len(PKCS7Padding(s)) = Len(s) + n
        /\ \A i \in 1..Len(s) : PKCS7Padding(s)[i] = s[i]
        /\ \A i \in (Len(s) + 1)..(Len(s) + n) : PKCS7Padding(s)[i] = n
    BY <1>6, <1>7, PaddedText
  <1>9. \A i \in 1..Len(t) : PKCS7Padding(s)[i] = t[i]
    <2> SUFFICES ASSUME NEW i \in 1..Len(t)
                 PROVE  PKCS7Padding(s)[i] = t[i]
      OBVIOUS
    <2>1. Len(s) \in Nat /\ Len(t) = Len(s) + n
      BY <1>1, <1>6
    <2>2. CASE i \in 1..Len(s)
      BY <2>2, <1>6, <1>8
    <2>3. CASE i \notin 1..Len(s)
      <3>1. i \in (Len(s) + 1)..(Len(s) + n) /\ i \in (Len(t) - n + 1)..Len(t)
        BY <2>1, <2>3, <1>1
      <3>2. QED
        BY <3>1, <1>2, <1>8
    <2>4. QED
      BY <2>2, <2>3
  <1>10. PKCS7Padding(s) = t
    BY <1>8, <1>6, <1>9, <1>1
  <1>11. QED
    BY <1>10, <1>2, <1>6, <1>1

-----------------------------------------------------------------------------
(* A ciphertext hides the padded text, nothing is decrypted before it is   *)
(* encrypted, what the right key yields is the text, and what any key      *)
(* yields is accepted only when it is a padded text.                       *)
CryptInv ==
    /\ src \in Seq(Bytes)
    /\ cipher # NoText => cipher.text = PKCS7Padding(src)
    /\ plain # NoText => cipher # NoText
    /\ RoundTrip
    /\ UnpaddingExact

(* A text of the length of a ciphertext that PKCS7UnPadding accepts is the *)
(* padded form of what it returns, whichever key it was decrypted with.    *)
LEMMA DecryptedExact ==
  ASSUME CryptInv, cipher # NoText, NEW k \in Keys,
         NEW t \in CBCDecrypt(k, cipher), PKCS7UnPadding(t) # NoText
  PROVE  /\ PKCS7Padding(PKCS7UnPadding(t)) = t
         /\ Len(PKCS7UnPadding(t)) < Len(t)
  <1> DEFINE c == cipher.text
  <1>1. src \in Seq(Bytes) /\ c = PKCS7Padding(src) /\ Len(src) \in Nat
    BY DEF CryptInv
  <1>2. /\ PadLength(Len(src)) \in 1..BlockSize
        /\ (Len(src) + PadLength(Len(src))) % BlockSize = 0
    BY <1>1, PadLengthBounds
  <1>3. c \in Seq(Bytes) /\ Len(c) = Len(src) + PadLength(Len(src))
    BY <1>1, PaddedText
  <1>4. Len(c) \in Nat /\ Len(c) > 0 /\ Len(c) % BlockSize = 0
    BY <1>1, <1>2, <1>3, CryptAssumption
  <1> HIDE DEF c
  <1>5. t \in Seq(Bytes) /\ Len(t) = Len(c)
    <2>1. t = c \/ t \in [1..Len(c) -> Bytes]
      BY DEF CBCDecrypt, c
    <2>2. CASE t \in [1..Len(c) -> Bytes]
      <3>1. t \in Seq(Bytes)
        BY <2>2, <1>4
      <3>2. Len(t) \in Nat /\ DOMAIN t = 1..Len(t) /\ DOMAIN t = 1..Len(c)
        BY <2>2, <3>1
      <3>3. QED
        BY <3>1, <3>2, <1>4
    <2>3. QED
      BY <2>1, <2>2, <1>3
  <1>6. QED
    BY <1>4, <1>5, PadUnpad

(* CryptInv holds in every state. *)
LEMMA CryptInvariant == CryptSpec => []CryptInv
  <1>1. CryptInit => CryptInv
    <2> SUFFICES ASSUME CryptInit
                 PROVE  CryptInv
      OBVIOUS
    <2>1. PICK n \in 0..MaxLen : src \in [1..n -> Bytes]
      BY DEF CryptInit, Texts
    <2>2. n \in Nat
      BY CryptAssumption
    <2>3. src \in Seq(Bytes)
      BY <2>1, <2>2
    <2>4. QED
      BY <2>3 DEF CryptInit, CryptInv, RoundTrip, UnpaddingExact
  <1>2. CryptInv /\ [CryptNext]_cryptVars => CryptInv'
    <2> SUFFICES ASSUME CryptInv, [CryptNext]_cryptVars
                 PROVE  CryptInv'
      OBVIOUS
    <2>1. CASE Encrypt
      <3>1. PICK k \in Keys : cipher' = CBCEncrypt(k, PKCS7Padding(src))
        BY <2>1 DEF Encrypt
      <3>2. cipher' # NoText => cipher'.text = PKCS7Padding(src)
        BY <3>1 DEF CBCEncrypt
      <3>3. plain = NoText /\ plain' = plain /\ src' = src
        BY <2>1 DEF Encrypt, CryptInv
      <3>4. QED
        BY <3>2, <3>3 DEF CryptInv, RoundTrip, UnpaddingExact
    <2>2. CASE Decrypt
      <3>0. PICK k \in Keys : \E t \in CBCDecrypt(k, cipher) :
              plain' = [key |-> k, text |-> t, original |-> PKCS7UnPadding(t)]
        BY <2>2 DEF Decrypt
      <3>1. PICK t \in CBCDecrypt(k, cipher) :
              plain' = [key |-> k, text |-> t, original |-> PKCS7UnPadding(t)]
        BY <3>0
      <3>2. cipher # NoText /\ cipher' = cipher /\ src' = src
        BY <2>2 DEF Decrypt
      <3>3. plain'.key = k /\ plain'.original = PKCS7UnPadding(t)
        BY <3>1
      <3>4. k = cipher.key => t = PKCS7Padding(src)
        BY <3>1, <3>2 DEF CBCDecrypt, CryptInv
      <3>5. plain'.key = cipher.key => plain'.original = src
        BY <3>3, <3>4, UnpadPad DEF CryptInv
      <3>6. plain'.text = t
        BY <3>1
      <3>7. plain'.original # NoText =>
              /\ PKCS7Padding(plain'.original) = plain'.text
              /\ Len(plain'.original) < Len(plain'.text)
        BY <3>2, <3>3, <3>6, DecryptedExact
      <3>8. QED
        BY <3>2, <3>5, <3>7 DEF CryptInv, RoundTrip, UnpaddingExact
    <2>3. CASE Draw
      BY <2>3 DEF Draw, CryptInv, RoundTrip, UnpaddingExact
    <2>4. CASE UNCHANGED cryptVars
      BY <2>4 DEF cryptVars, CryptInv, RoundTrip, UnpaddingExact
    <2>5. QED
      BY <2>1, <2>2, <2>3, <2>4 DEF CryptNext, CryptDone
  <1>3. QED
    BY <1>1, <1>2, PTL DEF CryptSpec

(* Every text that is encrypted and decrypted with the same key comes back *)
(* as it was: CBCPKCS7Decrypt undoes CBCPKCS7Encrypt.                      *)
THEOREM DecryptionRestores == CryptSpec => []RoundTrip
  <1>1. CryptInv => RoundTrip
    BY DEF CryptInv
  <1>2. QED
    BY <1>1, CryptInvariant, PTL

(* Whatever key is used, PKCS7UnPadding accepts what CBCDecrypt yields     *)
(* only when it is a padded text, and returns that text.                   *)
THEOREM UnpaddingIsExact == CryptSpec => []UnpaddingExact
  <1>1. CryptInv => UnpaddingExact
    BY DEF CryptInv
  <1>2. QED
    BY <1>1, CryptInvariant, PTL

(* The numbers of GenNumber have the length that was asked for, given what *)
(* a power of ten is.                                                      *)
THEOREM NumbersHaveLength ==
  ASSUME LowerBound \in Nat, LowerBound > 0, UpperBound = 10 * LowerBound
  PROVE  CryptSpec => []FixedLength
  <1>1. CryptInit => FixedLength
    BY DEF CryptInit, FixedLength
  <1>2. FixedLength /\ [CryptNext]_cryptVars => FixedLength'
    <2> SUFFICES ASSUME FixedLength, [CryptNext]_cryptVars
                 PROVE  FixedLength'
      OBVIOUS
    <2>1. CASE Draw
      <3>1. PICK r \in 0..(UpperBound - 1) :
              number' = GenNumber(LowerBound, UpperBound, r)
        BY <2>1 DEF Draw
      <3>2. LowerBound <= number' /\ number' < UpperBound
        BY <3>1, GenNumberBounds
      <3>3. QED
        BY <3>2 DEF FixedLength, LowerBound, UpperBound
    <2>2. CASE UNCHANGED number
      BY <2>2 DEF FixedLength, LowerBound, UpperBound
    <2>3. QED
      BY <2>1, <2>2 DEF CryptNext, Encrypt, Decrypt, CryptDone, cryptVars
  <1>3. QED
    BY <1>1, <1>2, PTL DEF CryptSpec

-----------------------------------------------------------------------------
(***************************************************************************)
(* CopRandom.  As long as no two handlers have been inside the source at   *)
(* once, one that is inside has met no word of another, so it gets the     *)
(* next one; every word handed out is one that the source has produced.    *)
(***************************************************************************)
RandomTypeOK ==
    /\ words \in Seq(Words)
    /\ rpc \in [Goroutines -> {"call", "int63", "loop", "done"}]
    /\ drawn \in [Goroutines -> Seq(Nat)]
    /\ meets \in [Goroutines -> SUBSET Nat]

SourceInv ==
    ~raced =>
        /\ \A g, h \in Inside : g = h
        /\ \A g \in Inside : meets[g] = {}
        /\ \A g \in Goroutines : \A i \in DOMAIN drawn[g] :
              drawn[g][i] \in 1..Len(words)

(* Nothing has been drawn. *)
LEMMA RandomInitInv ==
    RandomInit => RandomTypeOK /\ SourceInv /\ DrawsDisjoint
<1> SUFFICES ASSUME RandomInit
             PROVE  RandomTypeOK /\ SourceInv /\ DrawsDisjoint
  OBVIOUS
<1>1. \A g \in Goroutines : drawn[g] = <<>> /\ rpc[g] = "call"
  BY DEF RandomInit
<1>2. DOMAIN << >> = {}
  OBVIOUS
<1>3. RandomTypeOK
  BY DEF RandomInit, RandomTypeOK
<1>4. SourceInv /\ DrawsDisjoint
  BY <1>1, <1>2 DEF SourceInv, DrawsDisjoint, Inside
<1> QED
  BY <1>3, <1>4

(* A handler enters the source: it is the only one inside, or raced.       *)
LEMMA EnterInv ==
    ASSUME RandomTypeOK, SourceInv, DrawsDisjoint,
           NEW g \in Goroutines, EnterSource(g)
    PROVE  RandomTypeOK' /\ SourceInv' /\ DrawsDisjoint'
<1>1. RandomTypeOK'
  BY DEF RandomTypeOK, EnterSource
<1>2. ASSUME ~raced' PROVE ~raced /\ Inside = {}
  BY <1>2 DEF EnterSource
<1>3. UNCHANGED <<words, drawn>>
  BY DEF EnterSource
<1>4. DrawsDisjoint'
  BY <1>2, <1>3 DEF DrawsDisjoint
<1>5. SourceInv'
  <2> SUFFICES ASSUME ~raced' PROVE SourceInv'
    BY DEF SourceInv
  <2>1. Inside' = {g} /\ meets'[g] = {}
    BY <1>2 DEF EnterSource, Inside, RandomTypeOK
  <2> QED
    BY <1>2, <1>3, <2>1 DEF SourceInv
<1> QED
  BY <1>1, <1>4, <1>5

(* The handler that leaves the source takes the next word. *)
LEMMA LeaveInv ==
    ASSUME RandomTypeOK, SourceInv, DrawsDisjoint,
           NEW g \in Goroutines, LeaveSource(g)
    PROVE  RandomTypeOK' /\ SourceInv' /\ DrawsDisjoint'
<1>0. Len(words) \in Nat /\ g \in Inside /\ UNCHANGED raced
  BY DEF RandomTypeOK, LeaveSource, Inside
<1>1. PICK k \in Given(g), w \in Words :
          /\ k <= Len(words) => w = words[k]
          /\ words' = IF k <= Len(words) THEN words ELSE Append(words, w)
          /\ drawn' = [drawn EXCEPT ![g] = Append(@, k)]
          /\ meets' = [h \in Goroutines |->
                IF h \in Inside \ {g} THEN meets[h] \cup {k} ELSE meets[h]]
  BY DEF LeaveSource
<1>2. k \in Nat
  BY <1>0, <1>1 DEF Given, RandomTypeOK
<1>3. RandomTypeOK'
  <2>1. words' \in Seq(Words)
    BY <1>1 DEF RandomTypeOK
  <2>2. drawn' \in [Goroutines -> Seq(Nat)]
    BY <1>1, <1>2 DEF RandomTypeOK
  <2>3. meets' \in [Goroutines -> SUBSET Nat]
    BY <1>1, <1>2 DEF RandomTypeOK
  <2>4. rpc' \in [Goroutines -> {"call", "int63", "loop", "done"}]
    BY DEF RandomTypeOK, LeaveSource
  <2> QED
    BY <2>1, <2>2, <2>3, <2>4 DEF RandomTypeOK
<1>4. ASSUME ~raced PROVE SourceInv' /\ DrawsDisjoint'
  <2>1. Inside = {g} /\ meets[g] = {}
    BY <1>0, <1>4 DEF SourceInv
  <2>2. k = Len(words) + 1
    BY <1>1, <2>1 DEF Given
  <2>3. Len(words') = Len(words) + 1
    BY <1>0, <1>1, <2>2 DEF RandomTypeOK
  <2>4. Inside' = {}
    BY <2>1 DEF LeaveSource, Inside, RandomTypeOK
  <2>5. \A h \in Goroutines \ {g} : drawn'[h] = drawn[h]
    BY <1>1 DEF RandomTypeOK
  <2>6. PICK n \in Nat : n = Len(drawn[g]) /\ DOMAIN drawn[g] = 1..n
    BY DEF RandomTypeOK
  <2>7. /\ DOMAIN drawn'[g] = 1..(n + 1)
        /\ drawn'[g][n + 1] = Len(words) + 1
        /\ \A i \in 1..n : drawn'[g][i] = drawn[g][i]
    BY <1>1, <1>2, <2>2, <2>6 DEF RandomTypeOK
  <2>8. \A h \in Goroutines : \A i \in DOMAIN drawn[h] : drawn[h][i] \in 1..Len(words)
    BY <1>4 DEF SourceInv
  <2>9. \A h \in Goroutines : \A i \in DOMAIN drawn'[h] :
          \/ h = g /\ i = n + 1 /\ drawn'[h][i] = Len(words) + 1
          \/ i \in DOMAIN drawn[h] /\ drawn'[h][i] = drawn[h][i]
    BY <2>5, <2>6, <2>7
  <2>10. SourceInv'
    BY <1>0, <2>3, <2>4, <2>8, <2>9 DEF SourceInv
  <2>11. ASSUME NEW a \in Goroutines, NEW b \in Goroutines,
                NEW i \in DOMAIN drawn'[a], NEW j \in DOMAIN drawn'[b],
                drawn'[a][i] = drawn'[b][j]
         PROVE  a = b /\ i = j
    <3>1. ASSUME NEW h \in Goroutines, NEW l \in DOMAIN drawn[h]
          PROVE  drawn[h][l] # Len(words) + 1
      BY <1>0, <2>8, <3>1
    <3>2. CASE i \in DOMAIN drawn[a] /\ drawn'[a][i] = drawn[a][i]
      <4>1. drawn'[b][j] = drawn[a][i]
        BY <2>11, <3>2
      <4>2. drawn'[b][j] # Len(words) + 1
        BY <3>1, <3>2, <4>1
      <4>3. j \in DOMAIN drawn[b] /\ drawn'[b][j] = drawn[b][j]
        BY <2>9, <4>2
      <4>4. drawn[a][i] = drawn[b][j]
        BY <4>1, <4>3
      <4> QED
        BY <1>4, <3>2, <4>3, <4>4 DEF DrawsDisjoint
    <3>3. CASE a = g /\ i = n + 1 /\ drawn'[a][i] = Len(words) + 1
      <4>1. drawn'[b][j] = Len(words) + 1
        BY <2>11, <3>3
      <4>2. ~(j \in DOMAIN drawn[b] /\ drawn'[b][j] = drawn[b][j])
        BY <3>1, <4>1
      <4>3. b = g /\ j = n + 1
        BY <2>9, <4>2
      <4> QED
        BY <3>3, <4>3
    <3> QED
      BY <2>9, <3>2, <3>3
  <2>12. DrawsDisjoint'
    BY <2>11 DEF DrawsDisjoint
  <2> QED
    BY <2>10, <2>12
<1>5. ASSUME raced PROVE SourceInv' /\ DrawsDisjoint'
  BY <1>0, <1>5 DEF SourceInv, DrawsDisjoint
<1> QED
  BY <1>3, <1>4, <1>5

(* Every step. *)
LEMMA RandomStep ==
    RandomTypeOK /\ SourceInv /\ DrawsDisjoint /\ [RandomNext]_randomVars
        => RandomTypeOK' /\ SourceInv' /\ DrawsDisjoint'
<1> SUFFICES ASSUME RandomTypeOK, SourceInv, DrawsDisjoint, [RandomNext]_randomVars
             PROVE  RandomTypeOK' /\ SourceInv' /\ DrawsDisjoint'
  OBVIOUS
<1>1. ASSUME NEW g \in Goroutines, TakeLetter(g) \/ ReturnString(g)
      PROVE  RandomTypeOK' /\ SourceInv' /\ DrawsDisjoint'
  <2>1. UNCHANGED <<words, drawn, meets, raced>>
    BY <1>1 DEF TakeLetter, ReturnString
  <2>2. rpc' \in [Goroutines -> {"call", "int63", "loop", "done"}] /\ Inside' = Inside
    BY <1>1 DEF TakeLetter, ReturnString, Inside, RandomTypeOK
  <2> QED
    BY <2>1, <2>2 DEF RandomTypeOK, SourceInv, DrawsDisjoint
<1>2. CASE UNCHANGED randomVars
  BY <1>2 DEF randomVars, RandomTypeOK, SourceInv, DrawsDisjoint, Inside
<1> QED
  BY <1>1, <1>2, EnterInv, LeaveInv DEF RandomNext, RandomDone

(* For every set of handlers and every length of string: as long as no two *)
(* handlers were inside the unlocked source at once, no two secrets share  *)
(* a word of it and none uses a word twice.                                *)
THEOREM DrawsStayDisjoint == RandomSpec => []DrawsDisjoint
  BY RandomInitInv, RandomStep, PTL DEF RandomSpec

(***************************************************************************)
(* The letters of a string.  A handler has consumed the groups of all its  *)
(* words but the last, and the low ones of the last; its cache is the rest *)
(* of the last word, shifted down; its letters are those in the groups     *)
(* consumed, in their order.                                               *)
(***************************************************************************)
BitWords == [0..(WordBits - 1) -> {0, 1}]

LetterTypeOK ==
    /\ cache \in [Goroutines -> BitWords]
    /\ remain \in [Goroutines -> 0..letterIdxMax]
    /\ str \in [Goroutines -> Seq({LetterIndex(b) : b \in BitWords})]
    /\ \A g \in Goroutines :
          /\ \A i \in DOMAIN drawn[g] : drawn[g][i] \in 1..Len(words)
          /\ meets[g] \subseteq 1..Len(words)

(* The places whose bits have been shifted out of the cache. *)
Consumed(g) ==
    {q \in Places(g) :
        q[1] < Len(drawn[g]) \/ q[2] < letterIdxMax - remain[g]}

(* What is left in the cache are the bits above those consumed. *)
CacheLeft(g) ==
    /\ Len(drawn[g]) > 0
    /\ LET word == words[drawn[g][Len(drawn[g])]]
           low  == (letterIdxMax - remain[g]) * letterIdxBits
       IN  \A i \in 0..(WordBits - 1) :
              cache[g][i] = IF i + low < WordBits THEN word[i + low] ELSE 0

(* The letters so far are all those at the places consumed. *)
AllConsumed(g, from) ==
    \A q \in Consumed(g) : IsLetter(g, q) => \E n \in DOMAIN from : from[n] = q

LettersSoFar(g) ==
    \E from \in [1..Len(str[g]) -> Consumed(g)] :
        LettersAt(g, from) /\ AllConsumed(g, from)

LettersOf(g) ==
    /\ rpc[g] \in {"call", "int63"} => remain[g] = 0
    /\ rpc[g] = "done" => Len(str[g]) = StringLength
    /\ remain[g] > 0 => CacheLeft(g)
    /\ LettersSoFar(g)

LettersInv == \A g \in Goroutines : LettersOf(g)

(* Whole groups: there are letterIdxMax of them in a word. *)
LEMMA WordGroups ==
    /\ WordBits \in Nat /\ letterIdxBits \in Nat /\ letterIdxBits > 0
    /\ letterIdxMax \in Nat /\ letterIdxMax > 0
    /\ WholeGroups = 0..(letterIdxMax - 1)
    /\ \A j \in 0..(letterIdxMax - 1) :
          j * letterIdxBits \in Nat /\ j * letterIdxBits + letterIdxBits <= WordBits
<1>1. WordBits \in Nat /\ letterIdxBits \in Nat /\ letterIdxBits > 0
      /\ letterIdxBits <= WordBits
  BY RandomAssumption
<1> DEFINE M == letterIdxMax
<1>2. M \in Nat /\ M > 0
  BY <1>1 DEF letterIdxMax
<1>3. M * letterIdxBits <= WordBits /\ WordBits < M * letterIdxBits + letterIdxBits
  BY <1>1 DEF letterIdxMax
<1> HIDE DEF M
<1>4. ASSUME NEW j \in 0..(M - 1)
      PROVE  j * letterIdxBits \in Nat /\ j * letterIdxBits + letterIdxBits <= WordBits
  <2>1. (j + 1) * letterIdxBits <= M * letterIdxBits
    BY <1>1, <1>2
  <2>2. (j + 1) * letterIdxBits = j * letterIdxBits + letterIdxBits
    BY <1>1, <1>2
  <2>3. j * letterIdxBits \in Nat /\ M * letterIdxBits \in Nat
    BY <1>1, <1>2
  <2> QED
    BY <1>1, <1>3, <2>1, <2>2, <2>3
<1>5. ASSUME NEW j \in Nat, (j + 1) * letterIdxBits <= WordBits
      PROVE  j < M
  <2>1. ASSUME j >= M PROVE FALSE
    <3>1. (j + 1) * letterIdxBits >= (M + 1) * letterIdxBits
      BY <1>1, <1>2, <2>1
    <3>2. (M + 1) * letterIdxBits = M * letterIdxBits + letterIdxBits
      BY <1>1, <1>2
    <3>3. (j + 1) * letterIdxBits \in Int /\ M * letterIdxBits \in Int
      BY <1>1, <1>2
    <3> QED
      BY <1>1, <1>3, <1>5, <3>1, <3>2, <3>3
  <2> QED
    BY <1>2, <2>1
<1>6. ASSUME NEW j \in 0..(M - 1)
      PROVE  j <= WordBits /\ (j + 1) * letterIdxBits <= WordBits
  <2>1. (j + 1) * letterIdxBits = j * letterIdxBits + letterIdxBits
    BY <1>1, <1>2
  <2>2. j <= j * letterIdxBits
    BY <1>1, <1>2
  <2> QED
    BY <1>1, <1>2, <1>4, <2>1, <2>2
<1>7. WholeGroups = 0..(M - 1)
  BY <1>1, <1>2, <1>5, <1>6 DEF WholeGroups
<1> QED
  BY <1>1, <1>2, <1>4, <1>7 DEF M

(* The types, and that every word met or handed out has been produced.     *)
LEMMA LetterTypes ==
    RandomSpec => [](RandomTypeOK /\ LetterTypeOK)
<1>0. letterIdxMax \in Nat /\ WordBits \in Nat /\ letterIdxBits \in Nat
  BY WordGroups
<1>1. RandomInit => RandomTypeOK /\ LetterTypeOK
  <2> SUFFICES ASSUME RandomInit PROVE RandomTypeOK /\ LetterTypeOK
    OBVIOUS
  <2>1. [i \in 0..(WordBits - 1) |-> 0] \in BitWords
    BY DEF BitWords
  <2>2. cache \in [Goroutines -> BitWords]
    BY <2>1 DEF RandomInit
  <2>3. \A g \in Goroutines : drawn[g] = << >> /\ meets[g] = {}
    BY DEF RandomInit
  <2>4. remain \in [Goroutines -> 0..letterIdxMax]
        /\ str \in [Goroutines -> Seq({LetterIndex(b) : b \in BitWords})]
    BY <1>0 DEF RandomInit
  <2>5. RandomTypeOK
    BY DEF RandomInit, RandomTypeOK
  <2> QED
    BY <2>2, <2>3, <2>4, <2>5 DEF LetterTypeOK
<1>2. RandomTypeOK /\ LetterTypeOK /\ [RandomNext]_randomVars
        => RandomTypeOK' /\ LetterTypeOK'
  <2> SUFFICES ASSUME RandomTypeOK, LetterTypeOK, [RandomNext]_randomVars
               PROVE  RandomTypeOK' /\ LetterTypeOK'
    OBVIOUS
  <2>1. ASSUME NEW g \in Goroutines, EnterSource(g)
        PROVE  RandomTypeOK' /\ LetterTypeOK'
    <3>1. RandomTypeOK'
      BY <2>1 DEF RandomTypeOK, EnterSource
    <3>2. \A h \in Goroutines : meets'[h] \subseteq meets[h]
      BY <2>1 DEF RandomTypeOK, EnterSource
    <3> QED
      BY <2>1, <3>1, <3>2 DEF LetterTypeOK, EnterSource
  <2>2. ASSUME NEW g \in Goroutines, LeaveSource(g)
        PROVE  RandomTypeOK' /\ LetterTypeOK'
    <3>1. PICK k \in Given(g), w \in Words :
              /\ k <= Len(words) => w = words[k]
              /\ words' = IF k <= Len(words) THEN words ELSE Append(words, w)
              /\ cache' = [cache EXCEPT ![g] = w]
              /\ drawn' = [drawn EXCEPT ![g] = Append(@, k)]
              /\ meets' = [h \in Goroutines |->
                    IF h \in Inside \ {g} THEN meets[h] \cup {k} ELSE meets[h]]
      BY <2>2 DEF LeaveSource
    <3>2. Len(words) \in Nat /\ k \in 1..(Len(words) + 1)
      BY DEF Given, RandomTypeOK, LetterTypeOK
    <3>3. words' \in Seq(Words) /\ Len(words') >= Len(words) /\ Len(words') >= k
          /\ Len(words') \in Nat
      BY <3>1, <3>2 DEF RandomTypeOK
    <3>4. drawn' \in [Goroutines -> Seq(Nat)]
      BY <3>1, <3>2 DEF RandomTypeOK
    <3>5. meets' \in [Goroutines -> SUBSET Nat]
      BY <3>1, <3>2 DEF RandomTypeOK
    <3>6. rpc' \in [Goroutines -> {"call", "int63", "loop", "done"}]
      BY <2>2 DEF RandomTypeOK, LeaveSource
    <3>7. RandomTypeOK'
      BY <3>3, <3>4, <3>5, <3>6 DEF RandomTypeOK
    <3>8. w \in BitWords
      BY RandomAssumption DEF BitWords
    <3>9. cache' \in [Goroutines -> BitWords]
      BY <3>1, <3>8 DEF LetterTypeOK
    <3>10. remain' \in [Goroutines -> 0..letterIdxMax]
           /\ str' \in [Goroutines -> Seq({LetterIndex(b) : b \in BitWords})]
      BY <1>0, <2>2 DEF LeaveSource, LetterTypeOK
    <3>11. ASSUME NEW h \in Goroutines PROVE meets'[h] \subseteq 1..Len(words')
      BY <3>1, <3>2, <3>3 DEF LetterTypeOK
    <3>12. ASSUME NEW h \in Goroutines, NEW i \in DOMAIN drawn'[h]
           PROVE  drawn'[h][i] \in 1..Len(words')
      <4>1. CASE h # g
        <5>1. drawn'[h] = drawn[h]
          BY <3>1, <4>1 DEF RandomTypeOK
        <5>2. drawn[h][i] \in 1..Len(words)
          BY <3>12, <5>1 DEF LetterTypeOK
        <5> QED
          BY <3>2, <3>3, <5>1, <5>2
      <4>2. CASE h = g
        <5>1. drawn'[g] = Append(drawn[g], k) /\ drawn[g] \in Seq(Nat)
          BY <3>1 DEF RandomTypeOK
        <5>2. i \in 1..(Len(drawn[g]) + 1) /\ Len(drawn[g]) \in Nat
          BY <3>2, <3>12, <4>2, <5>1
        <5>3. CASE i = Len(drawn[g]) + 1
          <6>1. drawn'[g][i] = k
            BY <3>2, <5>1, <5>2, <5>3
          <6> QED
            BY <3>2, <3>3, <4>2, <6>1
        <5>4. CASE i \in 1..Len(drawn[g])
          <6>1. drawn'[g][i] = drawn[g][i] /\ i \in DOMAIN drawn[g]
            BY <3>2, <5>1, <5>2, <5>4
          <6>2. drawn[g][i] \in 1..Len(words)
            BY <6>1 DEF LetterTypeOK
          <6> QED
            BY <3>2, <3>3, <4>2, <6>1, <6>2
        <5> QED
          BY <5>2, <5>3, <5>4
      <4> QED
        BY <4>1, <4>2
    <3> QED
      BY <3>7, <3>9, <3>10, <3>11, <3>12 DEF LetterTypeOK
  <2>3. ASSUME NEW g \in Goroutines, TakeLetter(g)
        PROVE  RandomTypeOK' /\ LetterTypeOK'
    <3>1. UNCHANGED <<words, rpc, drawn, meets>>
      BY <2>3 DEF TakeLetter
    <3>2. cache[g] \in BitWords
      BY DEF LetterTypeOK
    <3>3. Shifted(cache[g]) \in BitWords
      BY <1>0, <3>2 DEF Shifted, BitWords
    <3>4. cache' \in [Goroutines -> BitWords]
      BY <2>3, <3>3 DEF TakeLetter, LetterTypeOK
    <3>5. remain' \in [Goroutines -> 0..letterIdxMax]
      BY <1>0, <2>3 DEF TakeLetter, LetterTypeOK
    <3>6. LettersTaken(str[g], LetterIndex(cache[g])) \in Seq({LetterIndex(b) : b \in BitWords})
      <4>1. LetterIndex(cache[g]) \in {LetterIndex(b) : b \in BitWords}
        BY <3>2
      <4>2. str[g] \in Seq({LetterIndex(b) : b \in BitWords})
        BY DEF LetterTypeOK
      <4> QED
        BY <4>1, <4>2 DEF LettersTaken
    <3>7. str' \in [Goroutines -> Seq({LetterIndex(b) : b \in BitWords})]
      BY <2>3, <3>6 DEF TakeLetter, LetterTypeOK
    <3> QED
      BY <3>1, <3>4, <3>5, <3>7 DEF RandomTypeOK, LetterTypeOK
  <2>4. ASSUME NEW g \in Goroutines, ReturnString(g)
        PROVE  RandomTypeOK' /\ LetterTypeOK'
    BY <2>4 DEF ReturnString, RandomTypeOK, LetterTypeOK
  <2>5. CASE UNCHANGED randomVars
    BY <2>5 DEF randomVars, RandomTypeOK, LetterTypeOK
  <2> QED
    BY <2>1, <2>2, <2>3, <2>4, <2>5 DEF RandomNext, RandomDone
<1> QED
  BY <1>1, <1>2, PTL DEF RandomSpec

(* A step that leaves a handler's string, the places it has consumed and   *)
(* what is at them alone keeps its letters.                                *)
LEMMA SameLetters ==
    ASSUME NEW g \in Goroutines, LettersSoFar(g),
           str'[g] = str[g], Consumed(g)' = Consumed(g),
           \A q \in Consumed(g) : IndexAt(g, q)' = IndexAt(g, q)
    PROVE  LettersSoFar(g)'
<1>1. PICK from \in [1..Len(str[g]) -> Consumed(g)] :
          LettersAt(g, from) /\ AllConsumed(g, from)
  BY DEF LettersSoFar
<1>2. \A q \in Consumed(g) : IsLetter(g, q)' = IsLetter(g, q)
  BY DEF IsLetter
<1>3. \A n \in DOMAIN from : from[n] \in Consumed(g)
  OBVIOUS
<1>4. LettersAt(g, from)'
  BY <1>1, <1>2, <1>3 DEF LettersAt
<1>5. AllConsumed(g, from)'
  BY <1>1, <1>2 DEF AllConsumed
<1>6. from \in [1..Len(str'[g]) -> Consumed(g)']
  OBVIOUS
<1> QED
  BY <1>4, <1>5, <1>6 DEF LettersSoFar

(* A step of another handler may only add a word. *)
LEMMA LettersKept ==
    ASSUME RandomTypeOK, LetterTypeOK, NEW g \in Goroutines, LettersOf(g),
           cache'[g] = cache[g], remain'[g] = remain[g],
           str'[g] = str[g], drawn'[g] = drawn[g],
           \A k \in 1..Len(words) : words'[k] = words[k],
           rpc'[g] \in {"call", "int63"} => remain[g] = 0,
           rpc'[g] = "done" => Len(str[g]) = StringLength
    PROVE  LettersOf(g)'
<1>1. Places(g)' = Places(g) /\ Consumed(g)' = Consumed(g)
  BY DEF Places, Consumed
<1>2. drawn[g] \in Seq(Nat) /\ Len(drawn[g]) \in Nat /\ DOMAIN drawn[g] = 1..Len(drawn[g])
  BY DEF RandomTypeOK
<1>3. \A i \in 1..Len(drawn[g]) : words'[drawn'[g][i]] = words[drawn[g][i]]
  BY <1>2 DEF LetterTypeOK
<1>4. \A q \in Consumed(g) : IndexAt(g, q)' = IndexAt(g, q)
  <2> SUFFICES ASSUME NEW q \in Consumed(g) PROVE IndexAt(g, q)' = IndexAt(g, q)
    OBVIOUS
  <2>1. q[1] \in 1..Len(drawn[g])
    BY DEF Consumed, Places
  <2>2. words'[drawn'[g][q[1]]] = words[drawn[g][q[1]]]
    BY <1>3, <2>1
  <2> QED
    BY <2>2 DEF IndexAt
<1>5. LettersSoFar(g)'
  BY <1>1, <1>4, SameLetters DEF LettersOf
<1>6. remain'[g] > 0 => CacheLeft(g)'
  <2> SUFFICES ASSUME remain[g] > 0 PROVE CacheLeft(g)'
    OBVIOUS
  <2>1. CacheLeft(g)
    BY DEF LettersOf
  <2>2. Len(drawn[g]) \in 1..Len(drawn[g])
    BY <1>2, <2>1 DEF CacheLeft
  <2>3. words'[drawn'[g][Len(drawn'[g])]] = words[drawn[g][Len(drawn[g])]]
    BY <1>3, <2>2
  <2>4. PICK low : low = (letterIdxMax - remain[g]) * letterIdxBits
    OBVIOUS
  <2>5. PICK word : word = words[drawn[g][Len(drawn[g])]]
    OBVIOUS
  <2>6. /\ Len(drawn[g]) > 0
        /\ \A i \in 0..(WordBits - 1) :
              cache[g][i] = IF i + low < WordBits THEN word[i + low] ELSE 0
    BY <2>1, <2>4, <2>5 DEF CacheLeft
  <2>7. /\ low = (letterIdxMax - remain'[g]) * letterIdxBits
        /\ word = words'[drawn'[g][Len(drawn'[g])]]
    BY <2>3, <2>4, <2>5
  <2>8. /\ Len(drawn'[g]) > 0
        /\ \A i \in 0..(WordBits - 1) :
              cache'[g][i] = IF i + low < WordBits THEN word[i + low] ELSE 0
    BY <2>6
  <2> QED
    BY <2>7, <2>8 DEF CacheLeft
<1> QED
  BY <1>5, <1>6 DEF LettersOf

(* A handler that leaves the source has used all it had, and has the whole *)
(* of the word it was given.                                               *)
LEMMA LettersLeave ==
    ASSUME RandomTypeOK, LetterTypeOK, NEW g \in Goroutines, LettersOf(g),
           LeaveSource(g)
    PROVE  /\ LettersOf(g)'
           /\ \A k \in 1..Len(words) : words'[k] = words[k]
<1>1. PICK k \in Given(g), w \in Words :
          /\ k <= Len(words) => w = words[k]
          /\ words' = IF k <= Len(words) THEN words ELSE Append(words, w)
          /\ cache' = [cache EXCEPT ![g] = w]
          /\ drawn' = [drawn EXCEPT ![g] = Append(@, k)]
  BY DEF LeaveSource
<1>2. Len(words) \in Nat /\ k \in 1..(Len(words) + 1) /\ words \in Seq(Words)
  BY DEF Given, RandomTypeOK, LetterTypeOK
<1>3. (\A i \in 1..Len(words) : words'[i] = words[i]) /\ words'[k] = w
  <2>1. CASE k <= Len(words)
    BY <1>1, <2>1
  <2>2. CASE k = Len(words) + 1
    <3>1. words' = Append(words, w)
      BY <1>1, <1>2, <2>2
    <3> QED
      BY <1>2, <2>2, <3>1
  <2> QED
    BY <1>2, <2>1, <2>2
<1> DEFINE n == Len(drawn[g])
<1>4. n \in Nat /\ drawn[g] \in Seq(Nat) /\ DOMAIN drawn[g] = 1..n
  BY DEF RandomTypeOK
<1>5. drawn'[g] = Append(drawn[g], k)
  BY <1>1 DEF RandomTypeOK
<1>6. /\ Len(drawn'[g]) = n + 1 /\ drawn'[g][n + 1] = k
      /\ \A i \in 1..n : drawn'[g][i] = drawn[g][i]
  BY <1>2, <1>4, <1>5
<1>7. /\ rpc[g] = "int63" /\ rpc'[g] = "loop" /\ str'[g] = str[g]
      /\ remain'[g] = letterIdxMax /\ cache'[g] = w
  BY <1>1 DEF LeaveSource, RandomTypeOK, LetterTypeOK
<1>8. remain[g] = 0
  BY <1>7 DEF LettersOf
<1>9. letterIdxMax \in Nat /\ WholeGroups = 0..(letterIdxMax - 1)
  BY WordGroups
<1> HIDE DEF n
<1>10. Consumed(g) = (1..n) \X (0..(letterIdxMax - 1))
  BY <1>4, <1>8, <1>9 DEF Consumed, Places, n
<1>11. Consumed(g)' = (1..n) \X (0..(letterIdxMax - 1))
  <2>1. Consumed(g)' = {q \in (1..(n + 1)) \X (0..(letterIdxMax - 1)) :
                          q[1] < n + 1 \/ q[2] < letterIdxMax - letterIdxMax}
    BY <1>6, <1>7, <1>9 DEF Consumed, Places
  <2> QED
    BY <1>4, <1>9, <2>1
<1>12. \A q \in Consumed(g) : IndexAt(g, q)' = IndexAt(g, q)
  <2> SUFFICES ASSUME NEW q \in Consumed(g) PROVE IndexAt(g, q)' = IndexAt(g, q)
    OBVIOUS
  <2>1. q[1] \in 1..n
    BY <1>10
  <2>2. drawn'[g][q[1]] = drawn[g][q[1]] /\ drawn[g][q[1]] \in 1..Len(words)
    BY <1>4, <1>6, <2>1 DEF LetterTypeOK
  <2>3. words'[drawn'[g][q[1]]] = words[drawn[g][q[1]]]
    <3>1. PICK i \in 1..Len(words) : i = drawn[g][q[1]] /\ i = drawn'[g][q[1]]
      BY <2>2, Zenon
    <3>2. words'[i] = words[i]
      BY <1>3, Zenon
    <3> QED
      BY <3>1, <3>2, Zenon
  <2> QED
    BY <2>3 DEF IndexAt
<1>13. LettersSoFar(g)'
  BY <1>7, <1>10, <1>11, <1>12, SameLetters DEF LettersOf
<1>14. CacheLeft(g)'
  <2>1. words'[drawn'[g][Len(drawn'[g])]] = w
    BY <1>3, <1>6
  <2>2. (letterIdxMax - letterIdxMax) * letterIdxBits = 0 /\ WordBits \in Nat
    BY WordGroups
  <2>3. \A i \in 0..(WordBits - 1) :
          w[i] = IF i + 0 < WordBits THEN w[i + 0] ELSE 0
    BY <2>2
  <2>4. Len(drawn'[g]) > 0
    BY <1>4, <1>6
  <2> QED
    BY <1>7, <2>1, <2>2, <2>3, <2>4 DEF CacheLeft
<1> QED
  BY <1>3, <1>7, <1>13, <1>14 DEF LettersOf

(* The low bits of the cache are the first group not yet consumed, and the *)
(* shift leaves the bits above it.                                         *)
LEMMA CacheHoldsGroup ==
    ASSUME RandomTypeOK, LetterTypeOK, NEW g \in Goroutines,
           CacheLeft(g), remain[g] > 0
    PROVE  LET t == letterIdxMax - remain[g]
               word == words[drawn[g][Len(drawn[g])]]
           IN  /\ Group(cache[g], 0) = Group(word, t * letterIdxBits)
               /\ \A i \in 0..(WordBits - 1) :
                     Shifted(cache[g])[i] =
                        IF i + (t + 1) * letterIdxBits < WordBits
                        THEN word[i + (t + 1) * letterIdxBits] ELSE 0
<1> DEFINE t == letterIdxMax - remain[g]
           low == t * letterIdxBits
           word == words[drawn[g][Len(drawn[g])]]
<1>1. WordBits \in Nat /\ letterIdxBits \in Nat /\ letterIdxBits > 0
  BY WordGroups
<1>2. t \in 0..(letterIdxMax - 1)
  <2>1. remain[g] \in 0..letterIdxMax /\ letterIdxMax \in Nat
    BY WordGroups DEF LetterTypeOK
  <2> QED
    BY <2>1
<1> HIDE DEF t
<1>3. low \in Nat /\ low + letterIdxBits <= WordBits
  <2>1. \A j \in 0..(letterIdxMax - 1) :
          j * letterIdxBits \in Nat /\ j * letterIdxBits + letterIdxBits <= WordBits
    BY WordGroups, Zenon
  <2> QED
    BY <1>2, <2>1, Zenon
<1>4. (t + 1) * letterIdxBits = low + letterIdxBits
  BY <1>1, <1>2
<1>5. \A i \in 0..(WordBits - 1) :
        cache[g][i] = IF i + low < WordBits THEN word[i + low] ELSE 0
  BY DEF CacheLeft, t
<1> HIDE DEF low, word
<1>6. \A i \in 0..(letterIdxBits - 1) : cache[g][0 + i] = word[low + i]
  BY <1>1, <1>3, <1>5
<1>7. Group(cache[g], 0) = Group(word, low)
  BY <1>6 DEF Group
<1>8. \A i \in 0..(WordBits - 1) :
        Shifted(cache[g])[i] =
            IF i + (low + letterIdxBits) < WordBits
            THEN word[i + (low + letterIdxBits)] ELSE 0
  <2> SUFFICES ASSUME NEW i \in 0..(WordBits - 1)
               PROVE  Shifted(cache[g])[i] =
                        IF i + (low + letterIdxBits) < WordBits
                        THEN word[i + (low + letterIdxBits)] ELSE 0
    OBVIOUS
  <2>1. Shifted(cache[g])[i] =
          IF i + letterIdxBits < WordBits THEN cache[g][i + letterIdxBits] ELSE 0
    BY DEF Shifted
  <2>2. CASE i + letterIdxBits < WordBits
    <3>1. i + letterIdxBits \in 0..(WordBits - 1)
      BY <1>1, <2>2
    <3>2. cache[g][i + letterIdxBits] =
            IF (i + letterIdxBits) + low < WordBits
            THEN word[(i + letterIdxBits) + low] ELSE 0
      BY <1>5, <3>1
    <3>3. (i + letterIdxBits) + low = i + (low + letterIdxBits)
      BY <1>1, <1>3
    <3> QED
      BY <2>1, <2>2, <3>2, <3>3
  <2>3. CASE ~(i + letterIdxBits < WordBits)
    BY <1>1, <1>3, <2>1, <2>3
  <2> QED
    BY <2>2, <2>3
<1> QED
  BY <1>4, <1>7, <1>8 DEF t, low, word

(* A round of the loop consumes the next place, and takes its letter if it *)
(* has one.                                                                *)
LEMMA LettersTake ==
    ASSUME RandomTypeOK, LetterTypeOK, NEW g \in Goroutines, LettersOf(g),
           TakeLetter(g)
    PROVE  LettersOf(g)'
<1> DEFINE t == letterIdxMax - remain[g]
           n == Len(drawn[g])
           here == <<n, t>>
           idx == LetterIndex(cache[g])
           len == Len(str[g])
<1>1. /\ rpc[g] = "loop" /\ remain[g] > 0 /\ UNCHANGED <<words, rpc, drawn>>
      /\ str'[g] = LettersTaken(str[g], idx)
      /\ cache'[g] = Shifted(cache[g]) /\ remain'[g] = remain[g] - 1
  BY DEF TakeLetter, LetterTypeOK
<1>2. CacheLeft(g)
  BY <1>1 DEF LettersOf
<1>3. /\ letterIdxMax \in Nat /\ WholeGroups = 0..(letterIdxMax - 1)
      /\ remain[g] \in 1..letterIdxMax /\ t \in 0..(letterIdxMax - 1)
  <2>1. letterIdxMax \in Nat /\ WholeGroups = 0..(letterIdxMax - 1)
    BY WordGroups
  <2>2. remain[g] \in 0..letterIdxMax /\ remain[g] > 0
    BY <1>1 DEF LetterTypeOK
  <2>3. remain[g] \in 1..letterIdxMax
    BY <2>1, <2>2
  <2>4. t \in 0..(letterIdxMax - 1)
    BY <2>1, <2>3
  <2> QED
    BY <2>1, <2>3, <2>4
<1>4. n \in Nat /\ n > 0
  BY <1>2 DEF CacheLeft, RandomTypeOK
<1>5. letterIdxMax - remain'[g] = t + 1
  <2>1. remain'[g] = remain[g] - 1
    BY <1>1
  <2>2. remain[g] \in Int /\ letterIdxMax \in Int
    BY <1>3
  <2> QED
    BY <2>1, <2>2
<1>6. idx = IndexAt(g, here)
  BY <1>1, <1>2, CacheHoldsGroup DEF LetterIndex, IndexAt
<1>7. CacheLeft(g)'
  <2>1. \A i \in 0..(WordBits - 1) :
          Shifted(cache[g])[i] =
            IF i + (t + 1) * letterIdxBits < WordBits
            THEN words[drawn[g][n]][i + (t + 1) * letterIdxBits] ELSE 0
    BY <1>1, <1>2, CacheHoldsGroup
  <2> HIDE DEF t
  <2> QED
    BY <1>1, <1>4, <1>5, <2>1 DEF CacheLeft
<1>8. \A q : IndexAt(g, q)' = IndexAt(g, q) /\ IsLetter(g, q)' = IsLetter(g, q)
  BY <1>1 DEF IndexAt, IsLetter
<1>9. Consumed(g) = {q \in (1..n) \X (0..(letterIdxMax - 1)) : q[1] < n \/ q[2] < t}
  BY <1>3 DEF Consumed, Places
<1>10. Consumed(g)' = {q \in (1..n) \X (0..(letterIdxMax - 1)) : q[1] < n \/ q[2] < t + 1}
  BY <1>1, <1>3, <1>5 DEF Consumed, Places
<1>11. str[g] \in Seq({LetterIndex(b) : b \in BitWords}) /\ len \in Nat
       /\ idx \in {LetterIndex(b) : b \in BitWords}
  BY DEF LetterTypeOK
<1>12. PICK from \in [1..len -> Consumed(g)] :
          LettersAt(g, from) /\ AllConsumed(g, from)
  BY DEF LettersOf, LettersSoFar
<1> HIDE DEF t, n, idx, len
<1>13. Consumed(g)' = Consumed(g) \cup {here}
  <2>1. here \in Consumed(g)'
    BY <1>3, <1>4, <1>10
  <2>2. ASSUME NEW q \in Consumed(g)' PROVE q \in Consumed(g) \cup {here}
    <3>1. q \in (1..n) \X (0..(letterIdxMax - 1)) /\ (q[1] < n \/ q[2] < t + 1)
      BY <1>10, <2>2
    <3>2. q = <<q[1], q[2]>> /\ q[1] \in 1..n /\ q[2] \in 0..(letterIdxMax - 1)
      BY <3>1
    <3>3. CASE q[1] < n \/ q[2] < t
      BY <1>9, <3>1, <3>3
    <3>4. CASE ~(q[1] < n \/ q[2] < t)
      <4>1. q[1] = n /\ q[2] = t
        BY <1>3, <1>4, <3>1, <3>2, <3>4
      <4> QED
        BY <3>2, <4>1
    <3> QED
      BY <3>3, <3>4
  <2>3. Consumed(g) \subseteq Consumed(g)'
    BY <1>3, <1>9, <1>10
  <2> QED
    BY <2>1, <2>2, <2>3
<1>14. \A q \in Consumed(g) : Before(q, here)
  <2> SUFFICES ASSUME NEW q \in Consumed(g) PROVE Before(q, here)
    OBVIOUS
  <2>1. q[1] \in 1..n /\ (q[1] < n \/ q[2] < t)
    BY <1>9
  <2>2. here[1] = n /\ here[2] = t
    OBVIOUS
  <2> QED
    BY <1>4, <2>1, <2>2 DEF Before
<1> HIDE DEF here
<1>15. CASE ~(idx < LetterCount)
  <2>1. str'[g] = str[g]
    BY <1>1, <1>15 DEF LettersTaken
  <2>2. ~IsLetter(g, here)
    BY <1>6, <1>15 DEF IsLetter
  <2>3. LettersAt(g, from)'
    BY <1>8, <1>12, <2>1 DEF LettersAt
  <2>4. AllConsumed(g, from)'
    BY <1>8, <1>12, <1>13, <2>2 DEF AllConsumed
  <2>5. from \in [1..Len(str'[g]) -> Consumed(g)']
    BY <1>13, <2>1 DEF len
  <2>6. LettersSoFar(g)'
    BY <2>3, <2>4, <2>5 DEF LettersSoFar
  <2> QED
    BY <1>1, <1>7, <2>6 DEF LettersOf
<1>16. CASE idx < LetterCount
  <2>1. str'[g] = Append(str[g], idx)
    BY <1>1, <1>16 DEF LettersTaken
  <2>2. /\ Len(str'[g]) = len + 1 /\ str'[g][len + 1] = idx
        /\ \A m \in 1..len : str'[g][m] = str[g][m]
    BY <1>11, <2>1 DEF len
  <2>0. PICK more : more = [m \in 1..(len + 1) |-> IF m <= len THEN from[m] ELSE here]
    OBVIOUS
  <2>3. /\ DOMAIN more = 1..(len + 1) /\ more[len + 1] = here
        /\ \A m \in 1..len : more[m] = from[m] /\ from[m] \in Consumed(g)
    BY <1>11, <2>0
  <2>4. \A m \in 1..(len + 1) : m \in 1..len \/ m = len + 1
    BY <1>11
  <2>5. more \in [1..Len(str'[g]) -> Consumed(g)']
    BY <1>13, <2>0, <2>2, <2>3, <2>4
  <2>6. IsLetter(g, here)
    BY <1>6, <1>16 DEF IsLetter
  <2>7. \A m \in 1..len : IsLetter(g, from[m]) /\ str[g][m] = IndexAt(g, from[m])
    BY <1>12 DEF LettersAt
  <2>8. \A m \in DOMAIN more :
          IsLetter(g, more[m])' /\ str'[g][m] = IndexAt(g, more[m])'
    <3> SUFFICES ASSUME NEW m \in DOMAIN more
                 PROVE  IsLetter(g, more[m])' /\ str'[g][m] = IndexAt(g, more[m])'
      OBVIOUS
    <3>1. CASE m = len + 1
      BY <1>6, <1>8, <2>2, <2>3, <2>6, <3>1
    <3>2. CASE m \in 1..len
      BY <1>8, <2>2, <2>3, <2>7, <3>2
    <3> QED
      BY <2>3, <2>4, <3>1, <3>2
  <2>9. \A m, k \in DOMAIN more : m < k => Before(more[m], more[k])
    <3> SUFFICES ASSUME NEW m \in 1..(len + 1), NEW k \in 1..(len + 1), m < k
                 PROVE  Before(more[m], more[k])
      BY <2>3
    <3>1. m \in 1..len
      BY <1>11
    <3>2. CASE k = len + 1
      BY <1>14, <2>3, <3>1, <3>2
    <3>3. CASE k \in 1..len
      <4>1. Before(from[m], from[k])
        BY <1>12, <3>1, <3>3 DEF LettersAt
      <4> QED
        BY <2>3, <3>1, <3>3, <4>1
    <3> QED
      BY <2>4, <3>2, <3>3
  <2>10. LettersAt(g, more)'
    BY <2>8, <2>9 DEF LettersAt
  <2>11. AllConsumed(g, more)'
    <3> SUFFICES ASSUME NEW q \in Consumed(g)', IsLetter(g, q)'
                 PROVE  \E m \in DOMAIN more : more[m] = q
      BY DEF AllConsumed
    <3>1. CASE q = here
      <4>1. len + 1 \in DOMAIN more
        BY <1>11, <2>3
      <4> QED
        BY <2>3, <3>1, <4>1
    <3>2. CASE q \in Consumed(g)
      <4>1. PICK m \in 1..len : from[m] = q
        BY <1>8, <1>12, <3>2 DEF AllConsumed
      <4>2. m \in DOMAIN more
        BY <1>11, <2>3
      <4> QED
        BY <2>3, <4>1, <4>2
    <3> QED
      BY <1>13, <3>1, <3>2
  <2>12. LettersSoFar(g)'
    BY <2>5, <2>10, <2>11 DEF LettersSoFar
  <2> QED
    BY <1>1, <1>7, <2>12 DEF LettersOf
<1> QED
  BY <1>15, <1>16

(* Every step, of the handler itself or of another. *)
LEMMA LettersStep ==
    RandomTypeOK /\ LetterTypeOK /\ LettersInv /\ [RandomNext]_randomVars => LettersInv'
<1> SUFFICES ASSUME RandomTypeOK, LetterTypeOK, LettersInv, [RandomNext]_randomVars,
                    NEW h \in Goroutines
             PROVE  LettersOf(h)'
  BY DEF LettersInv
<1>0. LettersOf(h)
  BY DEF LettersInv
<1>1. ASSUME NEW g \in Goroutines, EnterSource(g)
      PROVE  LettersOf(h)'
  <2>1. UNCHANGED <<words, cache, remain, str, drawn>>
    BY <1>1 DEF EnterSource
  <2>2. rpc'[h] \in {"call", "int63"} => remain[h] = 0
    BY <1>0, <1>1 DEF EnterSource, RandomTypeOK, LettersOf
  <2>3. rpc'[h] = "done" => Len(str[h]) = StringLength
    BY <1>0, <1>1 DEF EnterSource, RandomTypeOK, LettersOf
  <2> QED
    BY <1>0, <2>1, <2>2, <2>3, LettersKept
<1>2. ASSUME NEW g \in Goroutines, LeaveSource(g)
      PROVE  LettersOf(h)'
  <2>1. LettersOf(g)' /\ \A k \in 1..Len(words) : words'[k] = words[k]
    BY <1>2, LettersLeave DEF LettersInv
  <2>2. CASE h # g
    <3>1. /\ cache'[h] = cache[h] /\ remain'[h] = remain[h] /\ str'[h] = str[h]
          /\ drawn'[h] = drawn[h] /\ rpc'[h] = rpc[h]
      BY <1>2, <2>2 DEF LeaveSource, RandomTypeOK, LetterTypeOK
    <3>2. /\ rpc'[h] \in {"call", "int63"} => remain[h] = 0
          /\ rpc'[h] = "done" => Len(str[h]) = StringLength
      BY <1>0, <3>1 DEF LettersOf
    <3> QED
      BY <1>0, <2>1, <3>1, <3>2, LettersKept
  <2> QED
    BY <2>1, <2>2
<1>3. ASSUME NEW g \in Goroutines, TakeLetter(g)
      PROVE  LettersOf(h)'
  <2>1. CASE h = g
    BY <1>0, <1>3, <2>1, LettersTake
  <2>2. CASE h # g
    <3>1. /\ cache'[h] = cache[h] /\ remain'[h] = remain[h] /\ str'[h] = str[h]
          /\ UNCHANGED <<words, drawn, rpc>>
      BY <1>3, <2>2 DEF TakeLetter, LetterTypeOK
    <3>2. /\ rpc'[h] \in {"call", "int63"} => remain[h] = 0
          /\ rpc'[h] = "done" => Len(str[h]) = StringLength
      BY <1>0, <3>1 DEF LettersOf
    <3> QED
      BY <1>0, <3>1, <3>2, LettersKept
  <2> QED
    BY <2>1, <2>2
<1>4. ASSUME NEW g \in Goroutines, ReturnString(g)
      PROVE  LettersOf(h)'
  <2>1. UNCHANGED <<words, cache, remain, str, drawn>>
    BY <1>4 DEF ReturnString
  <2>2. /\ rpc'[h] \in {"call", "int63"} => remain[h] = 0
        /\ rpc'[h] = "done" => Len(str[h]) = StringLength
    BY <1>0, <1>4 DEF ReturnString, RandomTypeOK, LettersOf
  <2> QED
    BY <1>0, <2>1, <2>2, LettersKept
<1>5. CASE UNCHANGED randomVars
  <2>1. UNCHANGED <<words, cache, remain, str, drawn, rpc>>
    BY <1>5 DEF randomVars
  <2>2. /\ rpc'[h] \in {"call", "int63"} => remain[h] = 0
        /\ rpc'[h] = "done" => Len(str[h]) = StringLength
    BY <1>0, <2>1 DEF LettersOf
  <2> QED
    BY <1>0, <2>1, <2>2, LettersKept
<1> QED
  BY <1>1, <1>2, <1>3, <1>4, <1>5 DEF RandomNext, RandomDone

(* Nothing has been drawn, and no string has a letter. *)
LEMMA LettersInitially == RandomInit => LettersInv
<1> SUFFICES ASSUME RandomInit, NEW g \in Goroutines PROVE LettersOf(g)
  BY DEF LettersInv
<1>1. rpc[g] = "call" /\ remain[g] = 0 /\ str[g] = << >> /\ drawn[g] = << >>
  BY DEF RandomInit
<1>2. Len(str[g]) = 0 /\ Len(drawn[g]) = 0
  BY <1>1
<1>3. Consumed(g) = {}
  BY <1>2 DEF Consumed, Places
<1>4. PICK from : from = [n \in 1..0 |-> 0]
  OBVIOUS
<1>5. DOMAIN from = {} /\ from \in [1..Len(str[g]) -> Consumed(g)]
  BY <1>2, <1>4
<1>6. LettersAt(g, from) /\ AllConsumed(g, from)
  BY <1>3, <1>5 DEF LettersAt, AllConsumed
<1>7. LettersSoFar(g)
  BY <1>5, <1>6 DEF LettersSoFar
<1> QED
  BY <1>1, <1>7 DEF LettersOf

(* A place before a consumed one is consumed, so that the letters of a     *)
(* finished string leave none out.                                         *)
LEMMA LettersComplete ==
    RandomTypeOK /\ LetterTypeOK /\ LettersInv => LettersFromDraws
<1> SUFFICES ASSUME RandomTypeOK, LetterTypeOK, LettersInv,
                    NEW g \in Goroutines, rpc[g] = "done"
             PROVE  /\ Len(str[g]) = StringLength
                    /\ \E from \in [1..StringLength -> Places(g)] :
                          /\ LettersAt(g, from)
                          /\ \A q \in Places(g), n \in 1..StringLength :
                                IsLetter(g, q) /\ Before(q, from[n]) =>
                                    \E m \in 1..n : from[m] = q
  BY DEF LettersFromDraws
<1>1. Len(str[g]) = StringLength /\ LettersSoFar(g)
  BY DEF LettersInv, LettersOf
<1>2. PICK from \in [1..StringLength -> Consumed(g)] :
          LettersAt(g, from) /\ AllConsumed(g, from)
  BY <1>1 DEF LettersSoFar
<1>3. from \in [1..StringLength -> Places(g)]
  BY DEF Consumed
<1>4. StringLength \in Nat
  BY RandomAssumption
<1>5. \A q \in Places(g) : /\ q[1] \in 1..Len(drawn[g])
                           /\ q[2] \in 0..(letterIdxMax - 1)
  BY WordGroups DEF Places
<1>6. Len(drawn[g]) \in Nat /\ letterIdxMax \in Nat /\ remain[g] \in 0..letterIdxMax
  BY WordGroups DEF RandomTypeOK, LetterTypeOK
<1>7. ASSUME NEW q \in Places(g), NEW r \in Consumed(g), Before(q, r)
      PROVE  q \in Consumed(g)
  <2>1. r \in Places(g) /\ (r[1] < Len(drawn[g]) \/ r[2] < letterIdxMax - remain[g])
    BY DEF Consumed
  <2>2. q[1] < Len(drawn[g]) \/ q[2] < letterIdxMax - remain[g]
    BY <1>5, <1>6, <1>7, <2>1 DEF Before
  <2> QED
    BY <2>2 DEF Consumed
<1>8. ASSUME NEW q \in Places(g), NEW n \in 1..StringLength,
             IsLetter(g, q), Before(q, from[n])
      PROVE  \E m \in 1..n : from[m] = q
  <2>1. from[n] \in Consumed(g) /\ q \in Consumed(g)
    BY <1>7, <1>8
  <2>2. PICK m \in 1..StringLength : from[m] = q
    BY <1>2, <1>8, <2>1 DEF AllConsumed
  <2>3. ASSUME n < m PROVE FALSE
    <3>1. Before(from[n], q)
      BY <1>2, <2>2, <2>3 DEF LettersAt
    <3>2. from[n] \in Places(g)
      BY <1>3
    <3> QED
      BY <1>5, <1>8, <3>1, <3>2 DEF Before
  <2> QED
    BY <1>4, <2>2, <2>3
<1> QED
  BY <1>1, <1>2, <1>3, <1>8

(* For every word and letter width, every alphabet, every number of        *)
(* handlers and however their calls into the unlocked source interleave:   *)
(* the letters of a finished string are exactly the first acceptable       *)
(* groups of the words it drew, each used once and none left out.          *)
THEOREM LettersAreDrawnGroups == RandomSpec => []LettersFromDraws
<1>1. RandomSpec => []LettersInv
  BY LetterTypes, LettersInitially, LettersStep, PTL DEF RandomSpec
<1> QED
  BY <1>1, LetterTypes, LettersComplete, PTL

-----------------------------------------------------------------------------
(***************************************************************************)
(* CopTCert.  The attributes are those of the names looked up so far, and  *)
(* each has a last position; the certificates made so far are those of     *)
(* the first rounds, all from the same attributes.                         *)
(***************************************************************************)
BatchTypeOK ==
    /\ pc \in {"userInfo", "size", "issue", "refused", "failed", "done"}
    /\ req \in Request
    /\ looked \in 0..Len(req.names)
    /\ attrs \in Seq([name : Names, value : STRING])
    /\ num \in Nat

LastAt(list, i, n) ==
    /\ list[i].name = n
    /\ \A j \in 1..Len(list) : list[j].name = n => j <= i

AttrsOf(list, n, names) ==
    /\ \A j \in 1..Len(list) :
          /\ list[j].value = UserAttrs[list[j].name] /\ list[j].value # ""
          /\ \E i \in 1..n : names[i] = list[j].name
          /\ \E i \in 1..Len(list) : LastAt(list, i, list[j].name)
    /\ \A i \in 1..n : UserAttrs[names[i]] # "" =>
          \E j \in 1..Len(list) : list[j].name = names[i]

AttrsInv == AttrsOf(attrs, looked, req.names)

Cert(i) ==
    [serial |-> i, index |-> 2 * i - 1, period |-> period,
     extensions |-> Extensions(i, 2 * i - 1), keys |-> Ks(i)]

Certs == {Cert(i) : i \in Nat}

BatchInv ==
    /\ pc \in {"userInfo", "size"} => set = <<>>
    /\ pc \in {"size", "issue"} \/ set # <<>> => looked = Len(req.names)
    /\ pc \in {"issue", "done"} =>
          /\ BatchSize(req.count) # None /\ num = BatchSize(req.count)
          /\ period = BatchPeriod(req.period)
    /\ pc = "refused" => BatchSize(req.count) = None
    /\ pc = "done" => Len(set) = num
    /\ set \in Seq(Certs)
    /\ \A i \in 1..Len(set) : set[i] = Cert(i)

(* What a request is. *)
LEMMA RequestTyped ==
    ASSUME NEW r \in Request
    PROVE  /\ r.count \in Nat /\ r.period \in Int /\ r.encrypt \in BOOLEAN
           /\ r.names \in Seq(Names)
<1>1. /\ r.names \in UNION {[1..n -> Names] : n \in 0..MaxNames}
      /\ r.count \in Counts /\ r.period \in Periods /\ r.encrypt \in BOOLEAN
  BY DEF Request
<1>2. PICK m \in 0..MaxNames : r.names \in [1..m -> Names]
  BY <1>1
<1>3. m \in Nat
  BY TCertAssumption
<1>4. r.names \in Seq(Names)
  BY <1>2, <1>3
<1> QED
  BY <1>1, <1>4, TCertAssumption

(* No name is looked up yet. *)
LEMMA BatchInit == Init => BatchTypeOK /\ AttrsInv /\ BatchInv
<1> SUFFICES ASSUME Init PROVE BatchTypeOK /\ AttrsInv /\ BatchInv
  OBVIOUS
<1>1. req.names \in Seq(Names)
  BY RequestTyped DEF Init
<1>2. BatchTypeOK
  BY <1>1 DEF Init, BatchTypeOK
<1>3. AttrsInv
  BY DEF Init, AttrsInv, AttrsOf
<1>4. BatchInv
  BY DEF Init, BatchInv
<1> QED
  BY <1>2, <1>3, <1>4

(* One name is looked up. *)
LEMMA LookUp ==
    ASSUME BatchTypeOK, AttrsInv, looked < Len(req.names), looked' = looked + 1,
           attrs' = WithAttribute(req.names[looked + 1]), req' = req
    PROVE  /\ looked' \in 0..Len(req.names)
           /\ attrs' \in Seq([name : Names, value : STRING])
           /\ AttrsInv'
<1>1. PICK names \in Seq(Names) : names = req.names
  BY RequestTyped DEF BatchTypeOK
<1>2. looked \in Nat /\ Len(names) \in Nat /\ looked + 1 \in 1..Len(names)
  BY <1>1 DEF BatchTypeOK
<1>3. PICK name \in Names : name = names[looked + 1]
  BY <1>2
<1>4. UserAttrs[name] \in STRING /\ looked' \in 0..Len(req.names)
  BY <1>1, <1>2, TCertAssumption
<1>5. /\ \A i \in 1..looked : i \in 1..looked'
      /\ \A i \in 1..looked' : i \in 1..looked \/ names[i] = name
      /\ \E i \in 1..looked' : names[i] = name
  BY <1>2, <1>3
<1>6. CASE UserAttrs[name] = ""
  <2>1. attrs' = attrs
    BY <1>1, <1>3, <1>6 DEF WithAttribute
  <2>2. AttrsOf(attrs', looked', names)
    <3>1. AttrsOf(attrs, looked, names)
      BY <1>1 DEF AttrsInv
    <3>2. ASSUME NEW i \in 1..looked', UserAttrs[names[i]] # ""
          PROVE  \E j \in 1..Len(attrs) : attrs[j].name = names[i]
      BY <1>5, <1>6, <3>1, <3>2, Zenon DEF AttrsOf
    <3>3. ASSUME NEW j \in 1..Len(attrs)
          PROVE  /\ attrs[j].value = UserAttrs[attrs[j].name] /\ attrs[j].value # ""
                 /\ \E i \in 1..looked' : names[i] = attrs[j].name
                 /\ \E i \in 1..Len(attrs) : LastAt(attrs, i, attrs[j].name)
      BY <1>5, <3>1, Zenon DEF AttrsOf
    <3>4. AttrsOf(attrs, looked', names)
      BY <3>2, <3>3, Zenon DEF AttrsOf
    <3> QED
      BY <2>1, <3>4
  <2>3. AttrsOf(attrs', looked', req'.names)
    BY <1>1, <2>2
  <2>4. AttrsInv'
    BY <2>3 DEF AttrsInv, AttrsOf, LastAt
  <2> QED
    BY <1>4, <2>1, <2>4 DEF BatchTypeOK
<1>7. CASE UserAttrs[name] # ""
  <2>1. PICK new \in [name : Names, value : STRING] :
           /\ attrs' = Append(attrs, new)
           /\ new.name = name /\ new.value = UserAttrs[name]
    <3>1. attrs' = Append(attrs, [name |-> name, value |-> UserAttrs[name]])
      BY <1>1, <1>3, <1>7 DEF WithAttribute
    <3>2. [name |-> name, value |-> UserAttrs[name]] \in [name : Names, value : STRING]
      BY <1>4
    <3> QED
      BY <3>1, <3>2
  <2>2. PICK n \in Nat : n = Len(attrs)
    BY DEF BatchTypeOK
  <2>3. /\ attrs' \in Seq([name : Names, value : STRING])
        /\ Len(attrs') = n + 1 /\ attrs'[n + 1] = new
        /\ \A j \in 1..n : attrs'[j] = attrs[j]
    BY <2>1, <2>2 DEF BatchTypeOK
  <2>4. n + 1 \in 1..(n + 1) /\ \A j \in 1..(n + 1) : j \in 1..n \/ j = n + 1
    OBVIOUS
  <2>5. LastAt(attrs', n + 1, name)
    BY <2>1, <2>3 DEF LastAt
  <2>6. ASSUME NEW j \in 1..n
        PROVE  /\ attrs'[j].value = UserAttrs[attrs'[j].name] /\ attrs'[j].value # ""
               /\ \E i \in 1..looked' : names[i] = attrs'[j].name
               /\ \E i \in 1..(n + 1) : LastAt(attrs', i, attrs'[j].name)
    <3>1. /\ attrs[j].value = UserAttrs[attrs[j].name] /\ attrs[j].value # ""
          /\ \E i \in 1..looked : names[i] = attrs[j].name
          /\ \E i \in 1..n : LastAt(attrs, i, attrs[j].name)
      BY <1>1, <2>2 DEF AttrsInv, AttrsOf
    <3>2. attrs'[j] = attrs[j]
      BY <2>3
    <3>3. \E i \in 1..looked' : names[i] = attrs'[j].name
      BY <1>5, <3>1, <3>2
    <3>4. CASE attrs[j].name = name
      BY <2>4, <2>5, <3>1, <3>2, <3>3, <3>4
    <3>5. CASE attrs[j].name # name
      <4>1. PICK i \in 1..n : LastAt(attrs, i, attrs[j].name)
        BY <3>1
      <4>2. i \in 1..(n + 1) /\ attrs'[i] = attrs[i]
        BY <2>3
      <4>3. ASSUME NEW k \in 1..(n + 1), attrs'[k].name = attrs[j].name
            PROVE  k <= i
        BY <2>1, <2>2, <2>3, <2>4, <3>5, <4>1, <4>3 DEF LastAt
      <4>4. LastAt(attrs', i, attrs'[j].name)
        BY <2>3, <3>2, <4>1, <4>2, <4>3 DEF LastAt
      <4> QED
        BY <3>1, <3>2, <3>3, <4>2, <4>4
    <3> QED
      BY <3>4, <3>5
  <2>7. ASSUME NEW j \in 1..(n + 1)
        PROVE  /\ attrs'[j].value = UserAttrs[attrs'[j].name] /\ attrs'[j].value # ""
               /\ \E i \in 1..looked' : names[i] = attrs'[j].name
               /\ \E i \in 1..(n + 1) : LastAt(attrs', i, attrs'[j].name)
    <3>1. CASE j = n + 1
      BY <1>5, <1>7, <2>1, <2>3, <2>4, <2>5, <3>1
    <3> QED
      BY <2>4, <2>6, <3>1
  <2>8. ASSUME NEW i \in 1..looked', UserAttrs[names[i]] # ""
        PROVE  \E j \in 1..(n + 1) : attrs'[j].name = names[i]
    <3>1. CASE names[i] = name
      BY <2>1, <2>3, <2>4, <3>1
    <3>2. CASE i \in 1..looked
      <4>1. PICK j \in 1..n : attrs[j].name = names[i]
        BY <1>1, <2>2, <2>8, <3>2 DEF AttrsInv, AttrsOf
      <4> QED
        BY <2>3, <4>1
    <3> QED
      BY <1>5, <3>1, <3>2
  <2>9. AttrsOf(attrs', looked', names)
    <3>1. Len(attrs') = n + 1
      BY <2>3
    <3> QED
      BY <2>7, <2>8, <3>1, Zenon DEF AttrsOf
  <2>10. AttrsOf(attrs', looked', req'.names)
    BY <1>1, <2>9
  <2>11. AttrsInv'
    BY <2>10 DEF AttrsInv, AttrsOf, LastAt
  <2> QED
    BY <1>4, <2>3, <2>11
<1> QED
  BY <1>6, <1>7

(* A certificate depends on the request, the attributes and the period.    *)
LEMMA CertStable ==
    ASSUME UNCHANGED <<req, attrs, period>>
    PROVE  (\A i \in Nat : Cert(i)' = Cert(i)) /\ Certs' = Certs
<1>1. ASSUME NEW i \in Nat PROVE Cert(i)' = Cert(i)
  BY DEF Cert, Extensions, AttributeExtension, attributesHeader, Ks, AttributeNames
<1>2. Certs' = Certs
  BY <1>1 DEF Certs
<1> QED
  BY <1>1, <1>2

(* A step after the look-ups leaves the attributes alone. *)
LEMMA AttrsStable ==
    ASSUME AttrsInv, UNCHANGED <<req, looked, attrs>>
    PROVE  AttrsInv'
BY DEF AttrsInv, AttrsOf, LastAt

(* The look-up of a name, or its end. *)
LEMMA UserInfoStep ==
    ASSUME BatchTypeOK, AttrsInv, BatchInv, getUserInfo
    PROVE  BatchTypeOK' /\ AttrsInv' /\ BatchInv'
<1>1. pc = "userInfo" /\ set = <<>> /\ UNCHANGED <<req, num, period, set>>
  BY DEF getUserInfo, BatchInv
<1>2. CASE /\ looked < Len(req.names) /\ looked' = looked + 1
           /\ attrs' = WithAttribute(req.names[looked + 1]) /\ pc' = pc
  <2>1. AttrsInv' /\ BatchTypeOK'
    BY <1>1, <1>2, LookUp DEF BatchTypeOK
  <2>2. BatchInv'
    BY <1>1, <1>2 DEF BatchInv
  <2> QED
    BY <2>1, <2>2
<1>3. CASE /\ looked = Len(req.names) /\ pc' = "size"
           /\ looked' = looked /\ attrs' = attrs
  <2>1. AttrsInv'
    BY <1>1, <1>3, AttrsStable
  <2>2. BatchTypeOK'
    BY <1>1, <1>3 DEF BatchTypeOK
  <2>3. BatchInv'
    BY <1>1, <1>3 DEF BatchInv
  <2> QED
    BY <2>1, <2>2, <2>3
<1>4. CASE pc' = "failed" /\ looked' = looked /\ attrs' = attrs
  <2>1. AttrsInv'
    BY <1>1, <1>4, AttrsStable
  <2>2. BatchTypeOK'
    BY <1>1, <1>4 DEF BatchTypeOK
  <2>3. BatchInv'
    BY <1>1, <1>4 DEF BatchInv
  <2> QED
    BY <2>1, <2>2, <2>3
<1> QED
  BY <1>2, <1>3, <1>4 DEF getUserInfo

(* The size and the period of the batch are settled. *)
LEMMA SizeStep ==
    ASSUME BatchTypeOK, AttrsInv, BatchInv, Size
    PROVE  BatchTypeOK' /\ AttrsInv' /\ BatchInv'
<1>1. /\ pc = "size" /\ set = <<>> /\ looked = Len(req.names)
      /\ UNCHANGED <<req, looked, attrs, set>>
  BY DEF Size, BatchInv
<1>2. AttrsInv'
  BY <1>1, AttrsStable
<1>3. /\ req.count \in Nat /\ req.period \in Int
      /\ BatchSize(req.count) \in Nat \cup {None} /\ BatchPeriod(req.period) \in Int
  BY RequestTyped, TCertAssumption DEF BatchTypeOK, BatchSize, BatchPeriod
<1>4. CASE BatchSize(req.count) = None
  <2>1. pc' = "refused" /\ num' = 0 /\ period' = BatchPeriod(req.period)
    BY <1>4 DEF Size
  <2>2. BatchTypeOK'
    BY <1>1, <1>3, <2>1 DEF BatchTypeOK
  <2>3. BatchInv'
    BY <1>1, <1>4, <2>1 DEF BatchInv, BatchSize
  <2> QED
    BY <1>2, <2>2, <2>3
<1>5. CASE BatchSize(req.count) # None
  <2>1. pc' = "issue" /\ num' = BatchSize(req.count) /\ period' = BatchPeriod(req.period)
    BY <1>5 DEF Size
  <2>2. BatchTypeOK'
    BY <1>1, <1>3, <1>5, <2>1 DEF BatchTypeOK
  <2>3. BatchInv'
    BY <1>1, <1>5, <2>1 DEF BatchInv, BatchSize, BatchPeriod
  <2> QED
    BY <1>2, <2>2, <2>3
<1> QED
  BY <1>4, <1>5
(* One more certificate, or the failure of the batch. *)
LEMMA IssueStep ==
    ASSUME BatchTypeOK, AttrsInv, BatchInv, Issue
    PROVE  BatchTypeOK' /\ AttrsInv' /\ BatchInv'
<1>1. pc = "issue" /\ UNCHANGED <<req, looked, attrs, num, period>>
  BY DEF Issue
<1>2. AttrsInv'
  BY <1>1, AttrsStable
<1>3. (\A i \in Nat : Cert(i)' = Cert(i)) /\ Certs' = Certs
  BY <1>1, CertStable
<1>4. set \in Seq(Certs) /\ \A i \in 1..Len(set) : set[i] = Cert(i)
  BY DEF BatchInv
<1>5. CASE pc' = "failed" /\ set' = set
  <2>1. BatchTypeOK'
    BY <1>1, <1>5 DEF BatchTypeOK
  <2>2. set' \in Seq(Certs') /\ \A i \in 1..Len(set') : set'[i] = Cert(i)'
    BY <1>3, <1>4, <1>5
  <2>3. BatchInv'
    BY <1>1, <1>5, <2>2 DEF BatchInv
  <2> QED
    BY <1>2, <2>1, <2>3
<1>6. CASE pc' = pc /\ set' # set
  <2>1. PICK n \in Nat : n = Len(set)
    BY <1>4
  <2>2. 2 * n + 1 = 2 * (n + 1) - 1
    OBVIOUS
  <2>3. set' = Append(set, [serial |-> n + 1, index |-> 2 * n + 1, period |-> period,
                            extensions |-> Extensions(n + 1, 2 * n + 1), keys |-> Ks(n + 1)])
    BY <1>6, <2>1 DEF Issue
  <2>4. set' = Append(set, Cert(n + 1))
    BY <2>2, <2>3 DEF Cert
  <2>5. Cert(n + 1) \in Certs
    BY DEF Certs
  <2>6. /\ set' \in Seq(Certs) /\ Len(set') = n + 1 /\ set'[n + 1] = Cert(n + 1)
        /\ \A i \in 1..n : set'[i] = set[i]
    BY <1>4, <2>1, <2>4, <2>5
  <2>7. ASSUME NEW i \in 1..(n + 1) PROVE set'[i] = Cert(i)
    <3>1. i \in 1..n \/ i = n + 1
      OBVIOUS
    <3> QED
      BY <1>4, <2>1, <2>6, <3>1
  <2>8. set' \in Seq(Certs') /\ \A i \in 1..Len(set') : set'[i] = Cert(i)'
    BY <1>3, <2>6, <2>7
  <2>9. BatchTypeOK'
    BY <1>1, <1>6 DEF BatchTypeOK
  <2>10. BatchInv'
    BY <1>1, <1>6, <2>8 DEF BatchInv
  <2> QED
    BY <1>2, <2>9, <2>10
<1>7. CASE pc' = pc /\ set' = set
  <2>1. PICK x : set' = Append(set, x)
    BY <1>1, <1>7 DEF Issue
  <2> QED
    BY <1>4, <1>7, <2>1
<1> QED
  BY <1>5, <1>6, <1>7 DEF Issue

(* A step that leaves all but the program counter alone. *)
LEMMA BatchRest ==
    ASSUME BatchTypeOK, AttrsInv, BatchInv, Respond \/ Ended \/ UNCHANGED vars
    PROVE  BatchTypeOK' /\ AttrsInv' /\ BatchInv'
<1>1. UNCHANGED <<req, looked, attrs, num, period, set>>
  BY DEF Respond, Ended, vars
<1>2. pc' = pc \/ (pc = "issue" /\ pc' = "done" /\ Len(set) = num)
  BY DEF Respond, Ended, vars
<1>3. AttrsInv'
  BY <1>1, AttrsStable
<1>4. BatchTypeOK'
  BY <1>1, <1>2 DEF BatchTypeOK
<1>5. set' \in Seq(Certs') /\ \A i \in 1..Len(set') : set'[i] = Cert(i)'
  <2>1. (\A i \in Nat : Cert(i)' = Cert(i)) /\ Certs' = Certs
    BY <1>1, CertStable
  <2>2. set \in Seq(Certs) /\ \A i \in 1..Len(set) : set[i] = Cert(i)
    BY DEF BatchInv
  <2> QED
    BY <1>1, <2>1, <2>2
<1>6. CASE pc' = pc
  BY <1>1, <1>3, <1>4, <1>5, <1>6 DEF BatchInv, BatchSize, BatchPeriod
<1>7. CASE pc = "issue" /\ pc' = "done" /\ Len(set) = num
  BY <1>1, <1>3, <1>4, <1>5, <1>7 DEF BatchInv, BatchSize, BatchPeriod
<1> QED
  BY <1>2, <1>6, <1>7
(* Every reachable state of a batch satisfies the three. *)
LEMMA BatchInductive == Spec => [](BatchTypeOK /\ AttrsInv /\ BatchInv)
<1>1. ASSUME BatchTypeOK, AttrsInv, BatchInv, [Next]_vars
      PROVE  BatchTypeOK' /\ AttrsInv' /\ BatchInv'
  BY <1>1, UserInfoStep, SizeStep, IssueStep, BatchRest DEF Next
<1> QED
  BY <1>1, BatchInit, PTL DEF Spec

(* GetBatch answers with as many certificates as were asked for, or with   *)
(* the largest batch when none were, and all of them have the shorter of   *)
(* the two periods; it refuses only what is larger than the largest batch. *)
THEOREM BatchesAreComplete == Spec => []BatchComplete
<1>1. ASSUME BatchTypeOK, BatchInv PROVE BatchComplete
  <2>1. /\ req.count \in Nat /\ req.period \in Int
        /\ MaxAllowedBatchSize \in Nat /\ ValidityPeriod \in Nat /\ None \notin Nat
    BY <1>1, RequestTyped, TCertAssumption DEF BatchTypeOK
  <2>2. CASE pc = "refused"
    <3>1. BatchSize(req.count) = None
      BY <1>1, <2>2 DEF BatchInv
    <3>2. req.count > MaxAllowedBatchSize
      BY <2>1, <3>1 DEF BatchSize
    <3> QED
      BY <2>2, <3>2 DEF BatchComplete
  <2>3. CASE pc = "done"
    <3>1. /\ BatchSize(req.count) # None /\ Len(set) = BatchSize(req.count)
          /\ period = BatchPeriod(req.period)
      BY <1>1, <2>3 DEF BatchInv
    <3>2. /\ Len(set) = IF req.count = 0 THEN MaxAllowedBatchSize ELSE req.count
          /\ Len(set) <= MaxAllowedBatchSize
      BY <2>1, <3>1 DEF BatchSize
    <3>3. period \in {p \in {req.period, ValidityPeriod} :
                         p <= ValidityPeriod /\ (req.period > 0 => p <= req.period)}
      BY <2>1, <3>1 DEF BatchPeriod
    <3>4. \A i \in 1..Len(set) : set[i].period = period
      <4>1. \A i \in 1..Len(set) : set[i] = Cert(i)
        BY <1>1 DEF BatchInv
      <4>2. \A i \in 1..Len(set) : Cert(i).period = period
        BY DEF Cert
      <4> QED
        BY <4>1, <4>2
    <3> QED
      BY <2>3, <3>2, <3>3, <3>4 DEF BatchComplete
  <2>4. CASE pc \notin {"refused", "done"}
    BY <2>4 DEF BatchComplete
  <2> QED
    BY <2>2, <2>3, <2>4
<1> QED
  BY <1>1, BatchInductive, PTL
(* The elements of two lists that are joined. *)
LEMMA Joined ==
    ASSUME NEW S, NEW u \in Seq(S), NEW v \in Seq(S)
    PROVE  /\ u \o v \in Seq(S) /\ Len(u \o v) = Len(u) + Len(v)
           /\ \A i \in 1..Len(u) : (u \o v)[i] = u[i]
           /\ \A i \in 1..Len(v) : (u \o v)[Len(u) + i] = v[i]
<1>1. /\ u \o v \in Seq(S) /\ Len(u \o v) = Len(u) + Len(v)
      /\ \A i \in 1..(Len(u) + Len(v)) :
            (u \o v)[i] = IF i <= Len(u) THEN u[i] ELSE v[i - Len(u)]
  OBVIOUS
<1>2. ASSUME NEW i \in 1..Len(u) PROVE (u \o v)[i] = u[i]
  <2>1. i \in 1..(Len(u) + Len(v)) /\ i <= Len(u)
    OBVIOUS
  <2> QED
    BY <1>1, <2>1
<1>3. ASSUME NEW i \in 1..Len(v) PROVE (u \o v)[Len(u) + i] = v[i]
  <2>1. /\ Len(u) + i \in 1..(Len(u) + Len(v)) /\ ~(Len(u) + i <= Len(u))
        /\ (Len(u) + i) - Len(u) = i
    OBVIOUS
  <2> QED
    BY <1>1, <2>1
<1> QED
  BY <1>1, <1>2, <1>3

(* A list that two elements follow. *)
LEMMA JoinedTwo ==
    ASSUME NEW S, NEW a \in Seq(S), NEW n \in Nat, n = Len(a), NEW b \in S, NEW d \in S
    PROVE  /\ a \o <<b, d>> \in Seq(S) /\ Len(a \o <<b, d>>) = n + 2
           /\ \A i \in 1..n : (a \o <<b, d>>)[i] = a[i]
           /\ (a \o <<b, d>>)[n + 1] = b /\ (a \o <<b, d>>)[n + 2] = d
<1>1. PICK bd : bd = <<b, d>>
  OBVIOUS
<1>2. bd \in Seq(S) /\ Len(bd) = 2 /\ bd[1] = b /\ bd[2] = d
  BY <1>1
<1>3. /\ a \o bd \in Seq(S) /\ Len(a \o bd) = n + 2
      /\ \A i \in 1..n : (a \o bd)[i] = a[i]
      /\ \A i \in 1..2 : (a \o bd)[n + i] = bd[i]
  <2> a \in Seq(S) /\ bd \in Seq(S)
    BY <1>2
  <2>1. /\ a \o bd \in Seq(S) /\ Len(a \o bd) = Len(a) + Len(bd)
        /\ \A i \in 1..Len(a) : (a \o bd)[i] = a[i]
        /\ \A i \in 1..Len(bd) : (a \o bd)[Len(a) + i] = bd[i]
    BY Joined
  <2> QED
    BY <1>2, <2>1, Zenon
<1>4. 1 \in 1..2 /\ 2 \in 1..2
  OBVIOUS
<1> QED
  BY <1>1, <1>2, <1>3, <1>4

(* A list that one element follows. *)
LEMMA JoinedOne ==
    ASSUME NEW S, NEW a \in Seq(S), NEW n \in Nat, n = Len(a), NEW b \in S
    PROVE  /\ Len(a \o <<b>>) = n + 1 /\ (a \o <<b>>)[n + 1] = b
           /\ \A i \in 1..n : (a \o <<b>>)[i] = a[i]
<1>1. PICK bb : bb = <<b>>
  OBVIOUS
<1>2. bb \in Seq(S) /\ Len(bb) = 1 /\ bb[1] = b
  BY <1>1
<1>3. /\ Len(a \o bb) = n + 1 /\ \A i \in 1..n : (a \o bb)[i] = a[i]
      /\ \A i \in 1..1 : (a \o bb)[n + i] = bb[i]
  <2> a \in Seq(S) /\ bb \in Seq(S)
    BY <1>2
  <2>1. /\ a \o bb \in Seq(S) /\ Len(a \o bb) = Len(a) + Len(bb)
        /\ \A i \in 1..Len(a) : (a \o bb)[i] = a[i]
        /\ \A i \in 1..Len(bb) : (a \o bb)[Len(a) + i] = bb[i]
    BY Joined
  <2> QED
    BY <1>2, <2>1, Zenon
<1>4. 1 \in 1..1
  OBVIOUS
<1> QED
  BY <1>1, <1>2, <1>3, <1>4

(* The extensions of a certificate: one per attribute, the index, the      *)
(* enrollment id and, when there are attributes, the header.               *)
ShapeOf(list, n, s, x) ==
    /\ Len(list) = IF n = 0 THEN n + 2 ELSE n + 3
    /\ \A i \in 1..n : list[i] = AttributeExtension(s, i)
    /\ list[n + 1] = Extension(TCertEncTCertIndex, "extKey", x)
    /\ list[n + 2] = Extension(TCertEncEnrollmentID, DerivedKey(s, "enrollmentID"), "id")
    /\ n # 0 => list[n + 3] = Extension(TCertAttributesHeaders, None, attributesHeader)

(* generateExtensions makes a list of that shape. *)
LEMMA ExtensionsShape ==
    ASSUME attrs \in Seq([name : Names, value : STRING]), NEW s, NEW x
    PROVE  ShapeOf(Extensions(s, x), Len(attrs), s, x)
<1> PICK n \in Nat : n = Len(attrs)
  OBVIOUS
<1> SUFFICES ShapeOf(Extensions(s, x), n, s, x)
  OBVIOUS
<1> DEFINE a == [i \in 1..n |-> AttributeExtension(s, i)]
           b1 == Extension(TCertEncTCertIndex, "extKey", x)
           b2 == Extension(TCertEncEnrollmentID, DerivedKey(s, "enrollmentID"), "id")
           h == Extension(TCertAttributesHeaders, None, attributesHeader)
           c == IF attrs = <<>> THEN <<>> ELSE <<h>>
           T == {AttributeExtension(s, i) : i \in 1..n} \cup {b1, b2, h}
<1>1. Extensions(s, x) = a \o <<b1, b2>> \o c
  BY DEF Extensions
<1>2. (attrs = <<>>) <=> (n = 0)
  OBVIOUS
<1>3. /\ \A i \in 1..n : AttributeExtension(s, i) \in T
      /\ b1 \in T /\ b2 \in T /\ h \in T
  OBVIOUS
<1>4. a \in Seq(T) /\ Len(a) = n /\ \A i \in 1..n : a[i] = AttributeExtension(s, i)
  <2>1. a \in [1..n -> T]
    BY <1>3
  <2>2. a \in Seq(T)
    BY <2>1
  <2> QED
    BY <2>1, <2>2
<1> HIDE DEF a, b1, b2, h, T
<1>5. PICK ab :
         /\ ab = a \o <<b1, b2>> /\ ab \in Seq(T) /\ Len(ab) = n + 2
         /\ ab[n + 1] = b1 /\ ab[n + 2] = b2
         /\ \A i \in 1..n : ab[i] = AttributeExtension(s, i)
  <2>1. a \in Seq(T) /\ Len(a) = n /\ b1 \in T /\ b2 \in T
    BY <1>3, <1>4
  <2>2. /\ a \o <<b1, b2>> \in Seq(T) /\ Len(a \o <<b1, b2>>) = n + 2
        /\ \A i \in 1..n : (a \o <<b1, b2>>)[i] = a[i]
        /\ (a \o <<b1, b2>>)[n + 1] = b1 /\ (a \o <<b1, b2>>)[n + 2] = b2
    BY <2>1, JoinedTwo
  <2> QED
    BY <1>4, <2>2
<1>6. CASE n = 0
  <2>1. Extensions(s, x) = ab
    BY <1>1, <1>2, <1>5, <1>6
  <2> QED
    BY <1>5, <1>6, <2>1 DEF b1, b2, ShapeOf
<1>7. CASE n # 0
  <2>1. Extensions(s, x) = ab \o <<h>>
    BY <1>1, <1>2, <1>5, <1>7
  <2>2. /\ Len(ab \o <<h>>) = n + 3 /\ (ab \o <<h>>)[n + 3] = h
        /\ \A i \in 1..(n + 2) : (ab \o <<h>>)[i] = ab[i]
    <3>1. PICK m \in Nat : m = n + 2
      OBVIOUS
    <3>2. ab \in Seq(T) /\ Len(ab) = m /\ h \in T
      BY <1>3, <1>5, <3>1
    <3>3. /\ Len(ab \o <<h>>) = m + 1 /\ (ab \o <<h>>)[m + 1] = h
          /\ \A i \in 1..m : (ab \o <<h>>)[i] = ab[i]
      BY <3>2, JoinedOne
    <3>4. m + 1 = n + 3
      BY <3>1
    <3> QED
      BY <3>1, <3>3, <3>4
  <2>3. \A i \in 1..n : i \in 1..(n + 2)
    OBVIOUS
  <2>4. n + 1 \in 1..(n + 2) /\ n + 2 \in 1..(n + 2)
    OBVIOUS
  <2> QED
    BY <1>5, <1>7, <2>1, <2>2, <2>3, <2>4 DEF b1, b2, h, ShapeOf
<1> QED
  BY <1>6, <1>7
(* The object identifiers of the extensions: those of the attributes       *)
(* start after the header's, which comes last.                             *)
LEMMA ExtensionIds ==
    ASSUME NEW n \in Nat, NEW s, NEW x, NEW list, ShapeOf(list, n, s, x),
           NEW i \in 1..Len(list)
    PROVE  list[i].id = IF i <= n THEN 9 + i ELSE (i - n) + 6
<1>1. i \in 1..n \/ i = n + 1 \/ i = n + 2 \/ (n # 0 /\ i = n + 3)
  BY DEF ShapeOf
<1>2. CASE i \in 1..n
  <2>1. list[i] = AttributeExtension(s, i)
    BY <1>2 DEF ShapeOf
  <2>2. list[i].id = 9 + i
    BY <2>1 DEF AttributeExtension, Extension, AttributeId, TCertAttributesHeaders
  <2> QED
    BY <1>2, <2>2
<1>3. CASE i = n + 1
  <2>1. list[i].id = 7
    BY <1>3 DEF ShapeOf, Extension, TCertEncTCertIndex
  <2> QED
    BY <1>3, <2>1
<1>4. CASE i = n + 2
  <2>1. list[i].id = 8
    BY <1>4 DEF ShapeOf, Extension, TCertEncEnrollmentID
  <2> QED
    BY <1>4, <2>1
<1>5. CASE n # 0 /\ i = n + 3
  <2>1. list[i].id = 9
    BY <1>5 DEF ShapeOf, Extension, TCertAttributesHeaders
  <2> QED
    BY <1>5, <2>1
<1> QED
  BY <1>1, <1>2, <1>3, <1>4, <1>5

(* An object identifier stands for one extension, which is found by it. *)
FoundById(t) ==
    /\ \A i, j \in 1..Len(t.extensions) : t.extensions[i].id = t.extensions[j].id => i = j
    /\ \A i \in 1..Len(t.extensions) :
          ExtensionOf(t, t.extensions[i].id) = t.extensions[i]

(* So it is in a list of that shape. *)
LEMMA ExtensionFound ==
    ASSUME NEW n \in Nat, NEW s, NEW x, NEW t, ShapeOf(t.extensions, n, s, x)
    PROVE  FoundById(t)
<1>1. \A i \in 1..Len(t.extensions) :
         t.extensions[i].id = IF i <= n THEN 9 + i ELSE (i - n) + 6
  BY ExtensionIds
<1>2. Len(t.extensions) \in Nat /\ Len(t.extensions) <= n + 3
  BY DEF ShapeOf
<1>3. ASSUME NEW i \in 1..Len(t.extensions), NEW k \in 1..Len(t.extensions),
             t.extensions[i].id = t.extensions[k].id
      PROVE  i = k
  <2>1. (IF i <= n THEN 9 + i ELSE (i - n) + 6) = IF k <= n THEN 9 + k ELSE (k - n) + 6
    BY <1>1, <1>3
  <2>2. i \in Nat /\ k \in Nat /\ i <= n + 3 /\ k <= n + 3 /\ i >= 1 /\ k >= 1
    BY <1>2
  <2> QED
    BY <2>1, <2>2
<1>4. ASSUME NEW k \in 1..Len(t.extensions)
      PROVE  ExtensionOf(t, t.extensions[k].id) = t.extensions[k]
  <2>1. (CHOOSE i \in 1..Len(t.extensions) : t.extensions[i].id = t.extensions[k].id) = k
    BY <1>3
  <2> QED
    BY <2>1 DEF ExtensionOf
<1> QED
  BY <1>3, <1>4 DEF FoundById

(* What is known of a certificate of the batch. *)
LEMMA CertOfBatch ==
    ASSUME BatchTypeOK, BatchInv, NEW t \in Range(set)
    PROVE  /\ looked = Len(req.names)
           /\ \E i \in Nat : /\ ShapeOf(t.extensions, Len(attrs), i, 2 * i - 1)
                            /\ t.keys = Ks(i)
           /\ FoundById(t)
<1>1. set \in Seq(Certs) /\ \A i \in 1..Len(set) : set[i] = Cert(i)
  BY DEF BatchInv
<1>2. PICK i \in 1..Len(set) : t = set[i]
  BY <1>1 DEF Range
<1>3. t = Cert(i) /\ set # <<>> /\ i \in Nat
  BY <1>1, <1>2
<1>4. looked = Len(req.names)
  BY <1>3 DEF BatchInv
<1>5. t.extensions = Extensions(i, 2 * i - 1) /\ t.keys = Ks(i)
  BY <1>3 DEF Cert
<1>6. ShapeOf(Extensions(i, 2 * i - 1), Len(attrs), i, 2 * i - 1)
  BY ExtensionsShape DEF BatchTypeOK
<1>7. ShapeOf(t.extensions, Len(attrs), i, 2 * i - 1)
  BY <1>5, <1>6
<1>8. FoundById(t)
  <2>1. Len(attrs) \in Nat
    BY DEF BatchTypeOK
  <2> QED
    BY <1>7, <2>1, ExtensionFound
<1> QED
  BY <1>3, <1>4, <1>5, <1>7, <1>8

(* The key that comes with a certificate under the name of the enrollment  *)
(* id is the one generateExtensions encrypted the id with, unless an       *)
(* encrypted attribute has that name.                                      *)
THEOREM EnrollmentIDsAreReadable == Spec => []EnrollmentIDReadable
<1>1. ASSUME BatchTypeOK, BatchInv PROVE EnrollmentIDReadable
  <2> SUFFICES ASSUME NEW t \in Range(set),
                      ~(req.encrypt /\ "enrollmentId" \in AttributeNames)
               PROVE  ExtensionOf(t, TCertEncEnrollmentID).key = t.keys["enrollmentId"]
    BY DEF EnrollmentIDReadable
  <2>1. PICK n \in Nat : n = Len(attrs)
    BY <1>1 DEF BatchTypeOK
  <2>2. PICK i \in Nat : ShapeOf(t.extensions, n, i, 2 * i - 1) /\ t.keys = Ks(i)
    BY <1>1, <2>1, CertOfBatch
  <2>3. /\ n + 2 \in 1..Len(t.extensions)
        /\ t.extensions[n + 2] =
              Extension(TCertEncEnrollmentID, DerivedKey(i, "enrollmentID"), "id")
    BY <2>2 DEF ShapeOf
  <2>4. ExtensionOf(t, t.extensions[n + 2].id) = t.extensions[n + 2]
    BY <1>1, <2>3, CertOfBatch DEF FoundById
  <2>5. ExtensionOf(t, TCertEncEnrollmentID).key = DerivedKey(i, "enrollmentID")
    BY <2>3, <2>4 DEF Extension
  <2>6. Ks(i)["enrollmentId"] = DerivedKey(i, "enrollmentID")
    BY DEF Ks
  <2> QED
    BY <2>2, <2>5, <2>6
<1> QED
  BY <1>1, BatchInductive, PTL
(* Once all names are looked up, the attributes are those the user has. *)
LEMMA HeldAttributes ==
    ASSUME BatchTypeOK, AttrsInv, looked = Len(req.names)
    PROVE  {n \in Range(req.names) : UserAttrs[n] # ""} = AttributeNames
<1>1. PICK names \in Seq(Names) : names = req.names
  BY RequestTyped DEF BatchTypeOK
<1>2. AttrsOf(attrs, Len(names), names)
  BY <1>1 DEF AttrsInv
<1> Range(names) = {names[i] : i \in 1..Len(names)}
  <2>1. DOMAIN names = 1..Len(names)
    OBVIOUS
  <2> QED
    BY <2>1 DEF Range
<1>3. ASSUME NEW n, n \in Range(names), UserAttrs[n] # "" PROVE n \in AttributeNames
  <2>1. PICK i \in 1..Len(names) : n = names[i]
    BY <1>3
  <2>2. PICK j \in 1..Len(attrs) : attrs[j].name = n
    BY <1>2, <1>3, <2>1 DEF AttrsOf
  <2> QED
    BY <2>2 DEF AttributeNames
<1>4. ASSUME NEW n, n \in AttributeNames PROVE n \in Range(names) /\ UserAttrs[n] # ""
  <2>1. PICK j \in 1..Len(attrs) : attrs[j].name = n
    BY <1>4 DEF AttributeNames
  <2>2. UserAttrs[n] # "" /\ \E i \in 1..Len(names) : names[i] = n
    BY <1>2, <2>1 DEF AttrsOf
  <2>3. n \in Range(names)
    BY <2>2
  <2> QED
    BY <2>2, <2>3
<1> QED
  BY <1>1, <1>3, <1>4

(* The header gives a position of the attribute, where its value is. *)
LEMMA HeaderPosition ==
    ASSUME BatchTypeOK, AttrsInv, NEW n \in AttributeNames
    PROVE  /\ n \in DOMAIN attributesHeader
           /\ attributesHeader[n] \in 1..Len(attrs)
           /\ attrs[attributesHeader[n]].name = n
           /\ attrs[attributesHeader[n]].value = UserAttrs[n]
<1>1. AttrsOf(attrs, looked, req.names)
  BY DEF AttrsInv
<1>2. PICK j \in 1..Len(attrs) : attrs[j].name = n
  BY DEF AttributeNames
<1>3. \E i \in 1..Len(attrs) : LastAt(attrs, i, n)
  BY <1>1, <1>2 DEF AttrsOf
<1>4. attributesHeader[n] = CHOOSE i \in 1..Len(attrs) : LastAt(attrs, i, n)
  BY DEF attributesHeader, LastAt
<1>5. attributesHeader[n] \in 1..Len(attrs) /\ LastAt(attrs, attributesHeader[n], n)
  BY <1>3, <1>4
<1>6. n \in DOMAIN attributesHeader
  BY DEF attributesHeader
<1> QED
  BY <1>1, <1>5, <1>6 DEF LastAt, AttrsOf

(* Each attribute the request names and the user has can be read from each *)
(* certificate, by the header, the object identifiers and the keys that    *)
(* generateExtensions wrote; nothing else is in them.                      *)
THEOREM AttributesAreReadable == Spec => []AttributesReadable
<1>1. ASSUME BatchTypeOK, AttrsInv, BatchInv PROVE AttributesReadable
  <2> SUFFICES ASSUME NEW t \in Range(set)
               PROVE
        LET held == {n \in Range(req.names) : UserAttrs[n] # ""} IN
        /\ held = AttributeNames
        /\ \A i, j \in 1..Len(t.extensions) :
              t.extensions[i].id = t.extensions[j].id => i = j
        /\ \A n \in held :
              LET header == ExtensionOf(t, TCertAttributesHeaders).value
                  e == ExtensionOf(t, TCertAttributesHeaders + header[n])
              IN  /\ n \in DOMAIN header
                  /\ e.value = UserAttrs[n]
                  /\ IF req.encrypt
                     THEN n \in DOMAIN t.keys /\ e.key = t.keys[n]
                     ELSE e.key = None
    BY DEF AttributesReadable
  <2>1. PICK l \in Nat : l = Len(attrs)
    BY <1>1 DEF BatchTypeOK
  <2>2. FoundById(t) /\ looked = Len(req.names)
    BY <1>1, CertOfBatch
  <2>3. PICK c \in Nat : ShapeOf(t.extensions, l, c, 2 * c - 1) /\ t.keys = Ks(c)
    BY <1>1, <2>1, CertOfBatch
  <2>4. {n \in Range(req.names) : UserAttrs[n] # ""} = AttributeNames
    BY <1>1, <2>2, HeldAttributes
  <2>5. ASSUME NEW n \in AttributeNames
        PROVE  /\ ExtensionOf(t, TCertAttributesHeaders).value = attributesHeader
               /\ n \in DOMAIN attributesHeader
               /\ ExtensionOf(t, TCertAttributesHeaders + attributesHeader[n]).value
                     = UserAttrs[n]
               /\ IF req.encrypt
                  THEN /\ n \in DOMAIN t.keys
                       /\ ExtensionOf(t, TCertAttributesHeaders + attributesHeader[n]).key
                            = t.keys[n]
                  ELSE ExtensionOf(t, TCertAttributesHeaders + attributesHeader[n]).key = None
    <3>1. PICK p \in 1..l : /\ p = attributesHeader[n] /\ n \in DOMAIN attributesHeader
                            /\ attrs[p].name = n /\ attrs[p].value = UserAttrs[n]
      BY <1>1, <2>1, <2>5, HeaderPosition
    <3>2. /\ l + 3 \in 1..Len(t.extensions) /\ p \in 1..Len(t.extensions)
          /\ t.extensions[l + 3] = Extension(TCertAttributesHeaders, None, attributesHeader)
          /\ t.extensions[p] = AttributeExtension(c, p)
      BY <2>3 DEF ShapeOf
    <3>3. ExtensionOf(t, TCertAttributesHeaders).value = attributesHeader
      <4>1. ExtensionOf(t, t.extensions[l + 3].id) = t.extensions[l + 3]
        BY <2>2, <3>2 DEF FoundById
      <4> QED
        BY <3>2, <4>1 DEF Extension
    <3>4. /\ AttributeExtension(c, p).id = TCertAttributesHeaders + p
          /\ AttributeExtension(c, p).value = UserAttrs[n]
          /\ AttributeExtension(c, p).key =
                IF req.encrypt THEN DerivedKey(c, n) ELSE None
      BY <3>1 DEF AttributeExtension, Extension, AttributeId
    <3>5. ExtensionOf(t, t.extensions[p].id) = t.extensions[p]
      BY <2>2, <3>2 DEF FoundById
    <3>6. ExtensionOf(t, TCertAttributesHeaders + p) = AttributeExtension(c, p)
      BY <3>2, <3>4, <3>5
    <3>7. req.encrypt => n \in DOMAIN t.keys /\ t.keys[n] = DerivedKey(c, n)
      BY <2>3, <2>5 DEF Ks
    <3> QED
      BY <3>1, <3>3, <3>4, <3>6, <3>7
  <2>6. \A i, j \in 1..Len(t.extensions) :
           t.extensions[i].id = t.extensions[j].id => i = j
    BY <2>2 DEF FoundById
  <2> QED
    BY <2>4, <2>5, <2>6
<1> QED
  BY <1>1, BatchInductive, PTL
=============================================================================
