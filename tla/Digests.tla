------------------------------- MODULE Digests ------------------------------
(***************************************************************************)
(* Labelled digests: the algorithms and how they are spelled, the three    *)
(* encodings of a digest's octets, and when two of them are the same.      *)
(* (crates/archivindex-warc-digest)                                        *)
(*                                                                         *)
(* The spelling of a label is <<name, the letters of it in upper case>>.   *)
(* An encoded value is known by how many digits it has and how much        *)
(* padding, the encodings whose digits it is written with, and the octets  *)
(* each of them reads it as.                                               *)
(***************************************************************************)
EXTENDS Naturals, FiniteSets, SequencesExt

CONSTANTS
  Contents,        \* the contents digests are of
  Uppercase,     \* sets of letters that are written in upper case
  CustomLabels,  \* labels of no known algorithm
  OtherTexts     \* encoded values that no digest of this build is written as

VARIABLES digest, other     \* two labelled digests

digestsVars == <<digest, other>>

Algorithms ==
  {"md5", "sha1", "xxh3", "xxh128", "sha224", "sha256", "sha384", "sha512", "sha512-224", "sha512-256",
   "sha3-224", "sha3-256", "sha3-384", "sha3-512", "blake2s", "blake2b", "blake3"}

DigestLength(algorithm) ==
  CASE algorithm = "sha1" -> 20
    [] algorithm = "xxh3" -> 8
    [] algorithm \in {"md5", "xxh128"} -> 16
    [] algorithm \in {"sha224", "sha512-224", "sha3-224"} -> 28
    [] algorithm \in {"sha256", "sha512-256", "sha3-256", "blake2s", "blake3"} -> 32
    [] algorithm \in {"sha384", "sha3-384"} -> 48
    [] algorithm \in {"sha512", "sha3-512", "blake2b"} -> 64

Encodings == {"base16", "base32", "base64"}
RecommendedEncoding(algorithm) == IF algorithm = "sha1" THEN "base32" ELSE "base16"

(* compatibility_label: some algorithms have a second name.                *)
CompatibilityLabel ==
  [name \in {"sha-1", "sha-224", "sha-256", "sha-384", "sha-512"} |->
    CASE name = "sha-1" -> "sha1" [] name = "sha-224" -> "sha224" [] name = "sha-256" -> "sha256"
      [] name = "sha-384" -> "sha384" [] name = "sha-512" -> "sha512"]
-----------------------------------------------------------------------------
(* A label of a known algorithm is held as flags, any other as it is read. *)
LabelOf(spelling) ==
  LET name == spelling[1]
  IN  IF name \in Algorithms
      THEN [algorithm |-> <<name>>, compatibility |-> FALSE, uppercase |-> spelling[2], custom |-> << >>]
      ELSE IF name \in DOMAIN CompatibilityLabel
      THEN [algorithm |-> <<CompatibilityLabel[name]>>, compatibility |-> TRUE,
            uppercase |-> spelling[2], custom |-> << >>]
      ELSE [algorithm |-> << >>, compatibility |-> FALSE, uppercase |-> {}, custom |-> <<spelling>>]

FromAlgorithm(algorithm) == LabelOf(<<algorithm, {}>>)

(* as_read and write_to.                                                   *)
LabelAsRead(label) ==
  IF label.algorithm = << >> THEN label.custom[1]
  ELSE <<IF label.compatibility
         THEN CHOOSE name \in DOMAIN CompatibilityLabel : CompatibilityLabel[name] = label.algorithm[1]
         ELSE label.algorithm[1], label.uppercase>>

(* Names have no case.                                                     *)
SameLabel(l, m) ==
  IF l.algorithm = << >> THEN m.algorithm = << >> /\ l.custom[1][1] = m.custom[1][1]
  ELSE l.algorithm = m.algorithm
LabelHash(l) == IF l.algorithm # << >> THEN <<"known", l.algorithm[1]>> ELSE <<"custom", l.custom[1][1]>>
-----------------------------------------------------------------------------
Group(encoding) == CASE encoding = "base16" -> 2 [] encoding = "base32" -> 8 [] encoding = "base64" -> 4
Bits(encoding) == CASE encoding = "base16" -> 4 [] encoding = "base32" -> 5 [] encoding = "base64" -> 6

(* encode: as many digits as the octets take, padded to a group.           *)
DigitsFor(encoding, length) == (8 * length + Bits(encoding) - 1) \div Bits(encoding)
PaddingFor(encoding, digits) == (Group(encoding) - (digits % Group(encoding))) % Group(encoding)

(* Contents written in one encoding may be the digits of another as well,    *)
(* which reads them as other octets.                                       *)
EncodedTexts(encoding, octets, length) ==
  LET digits == DigitsFor(encoding, length)
  IN  {[digits |-> digits,
        padding |-> IF encoding = "base16" THEN 0 ELSE PaddingFor(encoding, digits),
        alphabets |-> a \cup {encoding},
        octets |-> [e \in Encodings |-> IF e = encoding THEN octets ELSE "others"]] :
          a \in SUBSET Encodings}

(* decoded_length, which none of the last digits of a group may break.     *)
DecodedLength(encoding, text) ==
  LET bits == text.digits * Bits(encoding)
      padded == \/ text.padding = 0
                \/ encoding # "base16" /\ text.padding = PaddingFor(encoding, text.digits)
  IN  IF padded /\ bits % 8 < Bits(encoding) THEN <<bits \div 8>> ELSE << >>

(* decode_value: the encodings that give as many octets as a digest of the *)
(* algorithm has, or any number if it is not known.                        *)
Fitting(d) ==
  {e \in Encodings :
    /\ e \in d.text.alphabets
    /\ DecodedLength(e, d.text) # << >>
    /\ d.label.algorithm # << >> =>
         DecodedLength(e, d.text) = <<DigestLength(d.label.algorithm[1])>>}

(* Several of them say nothing.                                            *)
EncodingOf(d) == IF Cardinality(Fitting(d)) = 1 THEN Fitting(d) ELSE {}
Decoded(d) == {<<d.text.octets[e], DecodedLength(e, d.text)>> : e \in EncodingOf(d)}

(* PartialEq and Hash.                                                     *)
SameDigest(d, o) ==
  /\ SameLabel(d.label, o.label)
  /\ d.text = o.text \/ (Decoded(d) # {} /\ Decoded(d) = Decoded(o))
DigestHash(d) == <<LabelHash(d.label), IF Decoded(d) # {} THEN Decoded(d) ELSE {d.text}>>
-----------------------------------------------------------------------------
(* from_digest_in, new, and a digest that is read.                         *)
FromDigest(algorithm, encoding, octets) ==
  {[label |-> FromAlgorithm(algorithm), text |-> t] :
     t \in EncodedTexts(encoding, octets, DigestLength(algorithm))}

Respelled(d) ==
  LET name == LabelAsRead(d.label)[1]
      names == {name} \cup {n \in DOMAIN CompatibilityLabel : <<CompatibilityLabel[n]>> = d.label.algorithm}
  IN  {[d EXCEPT !.label = LabelOf(<<n, u>>)] : n \in names, u \in Uppercase}

DigestsInit ==
  /\ \/ \E algorithm \in Algorithms, encoding \in Encodings, o \in Contents :
          digest \in FromDigest(algorithm, encoding, o)
     \/ \E label \in CustomLabels, t \in OtherTexts : digest = [label |-> LabelOf(<<label, {}>>), text |-> t]
     \/ \E algorithm \in {"md5", "sha1"}, t \in OtherTexts :
          digest = [label |-> FromAlgorithm(algorithm), text |-> t]
  /\ other = digest

(* The other one is spelled in another way, or encoded anew.               *)
Respell == \E d \in Respelled(other) : other' = d /\ UNCHANGED digest
Reencode ==
  \E encoding \in Encodings, e \in EncodingOf(other) :
    /\ other.label.algorithm # << >>
    /\ other' \in FromDigest(other.label.algorithm[1], encoding, other.text.octets[e])
    /\ UNCHANGED digest

DigestsNext == Respell \/ Reencode
-----------------------------------------------------------------------------
(* The octets of a digest come back from any text they are written as,     *)
(* however the label is spelled; digests that are the same hash the same,  *)
(* and stay so when one is spelled or encoded anew.                        *)
(* (LabelledDigest::decoded, PartialEq, Hash, from_digest_in)              *)
DigestsReadBack ==
  /\ SameDigest(digest, other)
  /\ DigestHash(digest) = DigestHash(other)
  /\ LabelOf(LabelAsRead(other.label)) = other.label
  /\ \A o \in Contents, e \in Encodings :
       other.label.algorithm # << >> =>
         \A d \in FromDigest(other.label.algorithm[1], e, o) :
           Decoded(d) = {<<o, <<DigestLength(other.label.algorithm[1])>>>>} /\ EncodingOf(d) = {e}
=============================================================================
