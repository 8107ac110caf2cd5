------------------------------ MODULE CopCrypt ------------------------------
(***************************************************************************)
(* The arithmetic of lib/tcert/util.go: PKCS#7 padding and unpadding       *)
(* around CBC encryption, and random numbers of a fixed length.  A text is *)
(* encrypted and the result decrypted, with the same key or another.       *)
(***************************************************************************)
EXTENDS Integers, Sequences

CONSTANTS
    BlockSize,  \* aes.BlockSize
    Bytes,      \* the values of a byte
    MaxLen,     \* bound on the length of a text
    Keys,       \* AES keys
    NumLen,     \* the number of digits GenNumber is asked for
    NoText

ASSUME CryptAssumption ==
    /\ BlockSize \in Nat \ {0} /\ MaxLen \in Nat /\ NumLen \in Nat \ {0}
    /\ 0..BlockSize \subseteq Bytes /\ Bytes \subseteq Nat

VARIABLES
    src,     \* the text
    cipher,  \* the ciphertext, or NoText
    plain,   \* what CBCPKCS7Decrypt returned, or NoText
    number   \* what GenNumber returned, or NoText

cryptVars == <<src, cipher, plain, number>>

Repeat(b, n) == [i \in 1..n |-> b]

(* aes.BlockSize - len(src)%aes.BlockSize *)
PadLength(n) == BlockSize - (n % BlockSize)

PKCS7Padding(s) == s \o Repeat(PadLength(Len(s)), PadLength(Len(s)))

(* A ciphertext is the key and the text it hides, behind one block of IV.  *)
CBCEncrypt(k, s) ==
    IF Len(s) % BlockSize # 0 THEN NoText ELSE [key |-> k, text |-> s]

(* Decryption with another key yields some text of the same length.        *)
CBCDecrypt(k, c) ==
    IF k = c.key THEN {c.text} ELSE [1..Len(c.text) -> Bytes]

(* Mutant: a whole block of padding is refused. *)
PaddingValidShort(n) == n < BlockSize /\ n # 0

PaddingValid(n) == n <= BlockSize /\ n # 0

(* Mutant: only the last byte is looked at. *)
PaddedByLastByte(s, n) == TRUE

(* pad[i] == unpadding for the last n bytes. *)
PaddedBy(s, n) == \A i \in (Len(s) - n + 1)..Len(s) : s[i] = n

(* PKCS7UnPadding, for a text that is not empty. *)
PKCS7UnPadding(s) ==
    LET n == s[Len(s)] IN
    IF PaddingValid(n) /\ PaddedBy(s, n) THEN SubSeq(s, 1, Len(s) - n) ELSE NoText

Texts == UNION {[1..n -> Bytes] : n \in 0..MaxLen}

Encrypt ==
    /\ cipher = NoText
    /\ \E k \in Keys : cipher' = CBCEncrypt(k, PKCS7Padding(src))
    /\ UNCHANGED <<src, plain, number>>

Decrypt ==
    /\ cipher # NoText /\ plain = NoText
    /\ \E k \in Keys : \E t \in CBCDecrypt(k, cipher) :
          plain' = [key |-> k, text |-> t, original |-> PKCS7UnPadding(t)]
    /\ UNCHANGED <<src, cipher, number>>

LowerBound == 10 ^ (NumLen - 1)
UpperBound == 10 ^ NumLen

(* Mutant: a number that wrapped around stays short. *)
GenNumberShort(lower, upper, randomNum) == (randomNum + lower) % upper

GenNumber(lower, upper, randomNum) ==
    LET valMod == (randomNum + lower) % upper IN
    IF valMod < lower THEN valMod + lower ELSE valMod

Draw ==
    /\ number = NoText
    /\ \E r \in 0..(UpperBound - 1) :
          number' = GenNumber(LowerBound, UpperBound, r)
    /\ UNCHANGED <<src, cipher, plain>>

CryptInit ==
    /\ src \in Texts
    /\ cipher = NoText /\ plain = NoText /\ number = NoText

(* Everything has been computed. *)
CryptDone == plain # NoText /\ number # NoText /\ UNCHANGED cryptVars

CryptNext == Encrypt \/ Decrypt \/ Draw \/ CryptDone

CryptSpec == CryptInit /\ [][CryptNext]_cryptVars

-----------------------------------------------------------------------------
(* CBCPKCS7Decrypt undoes CBCPKCS7Encrypt, for texts of every length up to *)
(* and beyond a block, those that end like a padding included.             *)
RoundTrip ==
    plain # NoText /\ plain.key = cipher.key => plain.original = src

(* Whatever text comes out of a decryption, PKCS7UnPadding accepts it only *)
(* when it is the padded form of what it returns; it looks at no byte      *)
(* before the first.                                                       *)
UnpaddingExact ==
    plain # NoText /\ plain.original # NoText =>
        /\ PKCS7Padding(plain.original) = plain.text
        /\ Len(plain.original) < Len(plain.text)

(* GenNumber "generates random numbers of type *big.Int with fixed         *)
(* length": the number has NumLen digits.                                  *)
FixedLength ==
    number # NoText => LowerBound <= number /\ number < UpperBound
=============================================================================
