--------------------------- MODULE SymmetricState ---------------------------
(***************************************************************************)
(* The symmetric state (symmetricstate.rs, used by handshakestate.rs but   *)
(* not part of src/), modelled from spec section 4.D.                      *)
(*                                                                         *)
(* Cryptography is symbolic.  Every byte string the handshake hashes or    *)
(* keys with is an Item; the hash h and the chaining key ck are the        *)
(* sequences of items mixed into them (a collision-free hash), a cipher    *)
(* key is the HKDF output it was taken from, and a ciphertext records the *)
(* key, nonce, associated data and plaintext it was made from, so that     *)
(* decryption succeeds exactly when all four match.                        *)
(***************************************************************************)
EXTENDS Naturals, Sequences

\* Every item has the same fields, so that TLC can compare any two.
Item(t, ks, n, key, ad, pt) == [t |-> t, ks |-> ks, n |-> n, key |-> key, ad |-> ad, pt |-> pt]
Atom(t, ks) == Item(t, ks, 0, <<>>, <<>>, <<>>)

PubItem(k)     == Atom("pub", {k})           \* a DH public key on the wire
DhItem(a, b)   == Atom("dh", {a, b})         \* DH(a, b) = DH(b, a)
PskItem(v)     == Atom("psk", {v})
PayloadItem(l) == Item("pay", {}, l, <<>>, <<>>, <<>>)   \* an l-byte payload
Junk           == Atom("junk", {})            \* bytes that are none of the above
EmptyIkm       == Atom("empty", {})
NameItem(nm)   == Atom("name", {nm})
PrologueItem(v) == Atom("prologue", {v})

\* HKDF(ck, ikm, _): the new chaining key is ck extended by ikm; the i-th
\* output is labelled i.  A cipher key is a one-item sequence.
HkdfOut(ck2, i) == Item("hkdf", {}, i, ck2, <<>>, <<>>)
NoKey == <<>>

\* CipherState::encrypt_ad output.
Ct(k, n, ad, pt) == Item("ct", {}, n, k, ad, <<pt>>)

\* SymmetricState::initialize(name): h is the (padded or hashed) name, ck = h.
Initialize(name) ==
  [h |-> <<NameItem(name)>>, ck |-> <<NameItem(name)>>, k |-> NoKey, n |-> 0]

HasKey(sym) == sym.k # NoKey

MixHash(sym, x) == [sym EXCEPT !.h = Append(@, x)]

\* (ck, temp_k) = HKDF(ck, ikm, 2); the cipher takes temp_k and nonce 0.
MixKey(sym, ikm) ==
  LET ck2 == Append(sym.ck, ikm)
  IN  [sym EXCEPT !.ck = ck2, !.k = <<HkdfOut(ck2, 2)>>, !.n = 0]

\* (ck, temp_h, temp_k) = HKDF(ck, ikm, 3); mix_hash(temp_h); install temp_k.
MixKeyAndHash(sym, ikm) ==
  LET ck2 == Append(sym.ck, ikm)
  IN  [sym EXCEPT !.ck = ck2, !.h = Append(@, HkdfOut(ck2, 2)),
                  !.k = <<HkdfOut(ck2, 3)>>, !.n = 0]

\* encrypt_and_mix_hash: the result holds the new state and the ciphertext.
EncryptAndMixHash(sym, pt) ==
  IF HasKey(sym)
  THEN LET c == Ct(sym.k, sym.n, sym.h, pt)
       IN  [sym |-> [sym EXCEPT !.h = Append(@, c), !.n = @ + 1], ct |-> c]
  ELSE [sym |-> MixHash(sym, pt), ct |-> pt]

\* Mutant: decryption does not authenticate the associated data h.
DecryptOkIgnoringAd(sym, c) ==
  ~HasKey(sym) \/ (c.t = "ct" /\ c.key = sym.k /\ c.n = sym.n)

\* decrypt_and_mix_hash: the ciphertext (not the plaintext) is mixed.
DecryptOk(sym, c) ==
  ~HasKey(sym) \/ (c.t = "ct" /\ c.key = sym.k /\ c.n = sym.n /\ c.ad = sym.h)

DecryptAndMixHash(sym, c) ==
  IF HasKey(sym)
  THEN [ok |-> DecryptOk(sym, c),
        sym |-> [sym EXCEPT !.h = Append(@, c), !.n = @ + 1],
        pt |-> IF DecryptOk(sym, c) THEN c.pt[1] ELSE Junk]
  ELSE [ok |-> TRUE, sym |-> MixHash(sym, c), pt |-> c]

\* split: (k1, k2) = HKDF(ck, empty, 2) into the two transport ciphers.
Split(sym) ==
  LET ck2 == Append(sym.ck, EmptyIkm)
  IN  [c1 |-> <<HkdfOut(ck2, 1)>>, c2 |-> <<HkdfOut(ck2, 2)>>]

=============================================================================
