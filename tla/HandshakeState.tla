--------------------------- MODULE HandshakeState ---------------------------
(***************************************************************************)
(* One HandshakeState of src/handshakestate.rs.  Its state is a record     *)
(*   [sym, cs, s, e, rs, re, psks, myTurn, pos]                            *)
(* (symmetricstate, cipherstates, the four Toggle slots, psks, my_turn,    *)
(* pattern_position).  Each public method is an operator from a state and *)
(* the call's inputs to the state after the call and its result; the      *)
(* session module composes two of them.  Byte strings are Items of        *)
(* SymmetricState; a wire message is a sequence of fields, each a length  *)
(* in bytes and the item those bytes encode.                              *)
(***************************************************************************)
EXTENDS Naturals, Sequences, Toggle, NoisePatterns, SymmetricState

CONSTANTS
  Pattern,      \* the base handshake pattern of params.handshake
  Mods,         \* the psk<n> modifiers, in order, as the sequence of n
  DHLEN,        \* s.pub_len(): length of a DH public key (dh_len())
  TAGLEN,       \* AEAD tag length
  MAXMSGLEN,    \* largest handshake message
  NPSK          \* number of psk slots (psks: [Option<[u8; PSKLEN]>; 10])

ASSUME ValidChoice(Pattern, Mods) /\ \A i \in 1..Len(Mods) : Mods[i] < NPSK
ASSUME {DHLEN, TAGLEN, MAXMSGLEN, NPSK} \subseteq Nat \ {0}

LOCAL INSTANCE SequencesExt

NoPsk   == "nopsk"     \* None in a psk slot
JunkKey == "junk"      \* public-key bytes that are no party's key

Msgs  == HandshakeTokens(Pattern, Mods).msgs
IsPsk == IsPskChoice(Mods)

Field(l, d) == [len |-> l, data |-> d]
MsgLen(m)   == FoldLeft(LAMBDA acc, f : acc + f.len, 0, m)

\* Bytes encrypt_and_mix_hash writes for an l-byte plaintext.
CtLen(sym, l) == IF HasKey(sym) THEN l + TAGLEN ELSE l

\* The key the bytes of an item encode when copied into rs or re.
KeyOf(x) == IF x.t = "pub" THEN CHOOSE k \in x.ks : TRUE ELSE JunkKey

-----------------------------------------------------------------------------
\* HandshakeState::new: hash params.name, mix the prologue and the pre-message keys, the
\* initiator's pre-message first, each side taking its own keys from s/e
\* and the peer's from rs/re.
PremsgOk(toks, sSlot, eSlot) ==
  \A i \in 1..Len(toks) : AsOptionRef(IF toks[i] = S THEN sSlot ELSE eSlot) # {}

MixPremsg(sym, toks, sSlot, eSlot) ==
  FoldLeft(LAMBDA acc, t : MixHash(acc, PubItem(IF t = S THEN sSlot.inner ELSE eSlot.inner)),
           sym, toks)

New(name, initiator, s, e, rs, re, psks, prologue) ==
  LET tk == HandshakeTokens(Pattern, Mods)
      iS == IF initiator THEN s ELSE rs
      iE == IF initiator THEN e ELSE re
      rS == IF initiator THEN rs ELSE s
      rE == IF initiator THEN re ELSE e
      sym0 == MixHash(Initialize(name), PrologueItem(prologue))
  IN  [ok |-> PremsgOk(tk.premsg_i, iS, iE) /\ PremsgOk(tk.premsg_r, rS, rE),
       st |-> [sym |-> MixPremsg(MixPremsg(sym0, tk.premsg_i, iS, iE), tk.premsg_r, rS, rE),
               cs |-> [c1 |-> NoKey, c2 |-> NoKey],
               s |-> s, e |-> e, rs |-> rs, re |-> re, psks |-> psks,
               myTurn |-> initiator, pos |-> 0]]

\* HandshakeState::dh(local_s, remote_s).  A DH with bytes that are no
\* party's key is reported as Error::Dh.
Dh(st, sel) ==
  LET l == IF sel[1] THEN st.s ELSE st.e
      r == IF sel[2] THEN st.rs ELSE st.re
  IN  IF ~(IsOn(l) /\ IsOn(r)) THEN [err |-> "MissingKeyMaterial", out |-> Junk]
      ELSE IF r.inner = JunkKey THEN [err |-> "Dh", out |-> Junk]
      ELSE [err |-> "none", out |-> DhItem(l.inner, r.inner)]

\* (local_s, remote_s) of each DH token, on the write and on the read side.
WriteDhSel == [Dhee |-> <<FALSE, FALSE>>, Dhes |-> <<FALSE, TRUE>>,
               Dhse |-> <<TRUE, FALSE>>,  Dhss |-> <<TRUE, TRUE>>]
\* Mutant: the read side dispatches DH tokens as the write side does.
ReadDhSelAsWrite == WriteDhSel

ReadDhSel  == [Dhee |-> <<FALSE, FALSE>>, Dhes |-> <<TRUE, FALSE>>,
               Dhse |-> <<FALSE, TRUE>>,  Dhss |-> <<TRUE, TRUE>>]

Fail(acc, err) == [acc EXCEPT !.err = err]

\* Token::Psk(n), identical on both sides.
PskToken(acc, n) ==
  IF acc.st.psks[n] = NoPsk THEN Fail(acc, "MissingPsk")
  ELSE [acc EXCEPT !.st.sym = MixKeyAndHash(@, PskItem(acc.st.psks[n]))]

DhToken(acc, sel) ==
  LET d == Dh(acc.st, sel)
  IN  IF d.err # "none" THEN Fail(acc, d.err)
      ELSE [acc EXCEPT !.st.sym = MixKey(@, d.out)]

-----------------------------------------------------------------------------
(***************************************************************************)
(* write_handshake_message(payload, message): plen is payload.len(),      *)
(* buflen is message.len(), eph the key e.generate(rng) produces.          *)
(***************************************************************************)
\* Token::E: generate e (unless fixed), send its public key, mix it.
WriteE(acc, buflen, eph, fixed) ==
  IF acc.cur + DHLEN > buflen THEN Fail(acc, "Input")
  ELSE LET e2   == IF fixed THEN acc.st.e ELSE SetInner(acc.st.e, eph)
           pub  == PubItem(e2.inner)
           sym1 == MixHash(acc.st.sym, pub)
       IN  [acc EXCEPT !.st.sym = IF IsPsk THEN MixKey(sym1, pub) ELSE sym1,
                       !.st.e = Enable(e2),
                       !.cur = @ + DHLEN, !.out = Append(@, Field(DHLEN, pub))]

\* Token::S: the bound check counts DHLEN only, but encrypt_and_mix_hash
\* writes DHLEN + TAGLEN bytes once a key is set: past the end it panics.
WriteS(acc, buflen) ==
  LET sym == acc.st.sym
      l   == CtLen(sym, DHLEN)
      r   == EncryptAndMixHash(sym, PubItem(acc.st.s.inner))
  IN  IF ~IsOn(acc.st.s) THEN Fail(acc, "MissingKeyMaterial")
      ELSE IF acc.cur + DHLEN > buflen THEN Fail(acc, "Input")
      ELSE IF acc.cur + l > buflen THEN Fail(acc, "Panic")
      ELSE [acc EXCEPT !.st.sym = r.sym, !.cur = @ + l, !.out = Append(@, Field(l, r.ct))]

WriteToken(acc, tok, buflen, eph, fixed) ==
  CASE tok.kind = "E"   -> WriteE(acc, buflen, eph, fixed)
    [] tok.kind = "S"   -> WriteS(acc, buflen)
    [] tok.kind = "Psk" -> PskToken(acc, tok.n)
    [] OTHER            -> DhToken(acc, WriteDhSel[tok.kind])

RECURSIVE WriteTokens(_, _, _, _, _)
WriteTokens(acc, toks, buflen, eph, fixed) ==
  IF toks = <<>> \/ acc.err # "none" THEN acc
  ELSE WriteTokens(WriteToken(acc, Head(toks), buflen, eph, fixed), Tail(toks), buflen, eph, fixed)

\* Mutant: the checkpoint is not restored on error.
RestoreNothing(st0, st, err) == [st |-> st, err |-> err, msg |-> <<>>]

\* The wrapper restores the checkpointed symmetric state on any error; the
\* slots keep what the tokens did to them.
Restore(st0, st, err) == [st |-> [st EXCEPT !.sym = st0.sym], err |-> err, msg |-> <<>>]

\* Mutant: the my_turn check is missing.
WriteCheckNoTurn(st) ==
  IF st.pos >= Len(Msgs) THEN "HandshakeAlreadyFinished" ELSE "none"

\* The checks _write_handshake_message makes before any token.
WriteCheck(st) ==
  IF ~st.myTurn THEN "NotTurnToWrite"
  ELSE IF st.pos >= Len(Msgs) THEN "HandshakeAlreadyFinished" ELSE "none"

WriteHandshakeMessage(st, plen, buflen, eph, fixed) ==
  IF WriteCheck(st) # "none" THEN [st |-> st, err |-> WriteCheck(st), msg |-> <<>>]
  ELSE
    LET acc == WriteTokens([st |-> st, err |-> "none", cur |-> 0, out |-> <<>>],
                           Msgs[st.pos + 1], buflen, eph, fixed)
        l   == CtLen(acc.st.sym, plen)
        r   == EncryptAndMixHash(acc.st.sym, PayloadItem(plen))
    IN  IF acc.err # "none" THEN Restore(st, acc.st, acc.err)
        ELSE IF acc.cur + plen + TAGLEN > buflen THEN Restore(st, acc.st, "Input")
        ELSE IF acc.cur + l > MAXMSGLEN THEN Restore(st, acc.st, "Input")
        ELSE [st  |-> [acc.st EXCEPT !.sym = r.sym,
                                     !.cs = IF st.pos = Len(Msgs) - 1 THEN Split(r.sym) ELSE @,
                                     !.myTurn = FALSE, !.pos = @ + 1],
              err |-> "none",
              msg |-> Append(acc.out, Field(l, r.ct))]

-----------------------------------------------------------------------------
(***************************************************************************)
(* read_handshake_message(message, payload).  Take cuts the first l bytes  *)
(* off a message: an item if they are exactly its first field, else junk. *)
(***************************************************************************)
Take(m, l) ==
  IF m # <<>> /\ m[1].len = l THEN [got |-> m[1].data, rest |-> Tail(m)]
  ELSE [got |-> Junk,
        rest |-> IF MsgLen(m) = l THEN <<>> ELSE <<Field(MsgLen(m) - l, Junk)>>]

\* The trailing bytes handed to decrypt_and_mix_hash as the payload.
PayloadOf(m) ==
  IF m = <<>> THEN PayloadItem(0) ELSE IF Len(m) = 1 THEN m[1].data ELSE Junk

\* Token::E: copy DHLEN bytes into re, mix them, enable re.
ReadE(acc) ==
  LET t    == Take(acc.ptr, DHLEN)
      re2  == SetInner(acc.st.re, KeyOf(t.got))
      pub  == PubItem(re2.inner)
      sym1 == MixHash(acc.st.sym, pub)
  IN  IF MsgLen(acc.ptr) < DHLEN THEN Fail(acc, "Input")
      ELSE [acc EXCEPT !.st.sym = IF IsPsk THEN MixKey(sym1, pub) ELSE sym1,
                       !.st.re = Enable(re2), !.ptr = t.rest]

\* Mutant: rs is written and enabled before the decryption is checked.
ReadSEnablingEarly(acc) ==
  LET need == CtLen(acc.st.sym, DHLEN)
      t    == Take(acc.ptr, need)
      r    == DecryptAndMixHash(acc.st.sym, t.got)
      acc2 == [acc EXCEPT !.st.rs = Enable(SetInner(@, KeyOf(r.pt)))]
  IN  IF MsgLen(acc.ptr) < need THEN Fail(acc, "Input")
      ELSE IF ~r.ok THEN Fail(acc2, "Decrypt")
      ELSE [acc2 EXCEPT !.st.sym = r.sym, !.ptr = t.rest]

\* Token::S: DHLEN (+ TAGLEN once a key is set) bytes are decrypted into rs.
ReadS(acc) ==
  LET need == CtLen(acc.st.sym, DHLEN)
      t    == Take(acc.ptr, need)
      r    == DecryptAndMixHash(acc.st.sym, t.got)
  IN  IF MsgLen(acc.ptr) < need THEN Fail(acc, "Input")
      ELSE IF ~r.ok THEN Fail(acc, "Decrypt")
      ELSE [acc EXCEPT !.st.sym = r.sym, !.st.rs = Enable(SetInner(@, KeyOf(r.pt))),
                       !.ptr = t.rest]

ReadToken(acc, tok) ==
  CASE tok.kind = "E"   -> ReadE(acc)
    [] tok.kind = "S"   -> ReadS(acc)
    [] tok.kind = "Psk" -> PskToken(acc, tok.n)
    [] OTHER            -> DhToken(acc, ReadDhSel[tok.kind])

RECURSIVE ReadTokens(_, _)
ReadTokens(acc, toks) ==
  IF toks = <<>> \/ acc.err # "none" THEN acc
  ELSE ReadTokens(ReadToken(acc, Head(toks)), Tail(toks))

\* Mutant: the tag is not subtracted from the returned length.
PayloadLenWithTag(sym, ptr) == MsgLen(ptr)

\* The Ok value of a read: the bytes left after the tokens, less the tag
\* when a key is set.  has_key is read after the decryption succeeded.
PayloadLen(sym, ptr) == IF HasKey(sym) THEN MsgLen(ptr) - TAGLEN ELSE MsgLen(ptr)

\* There is no my_turn check, and pattern_position is used as an index
\* without a finished check: a read after the last message panics.
ReadHandshakeMessage(st, m) ==
  IF MsgLen(m) > MAXMSGLEN THEN [st |-> st, err |-> "Input", msg |-> <<>>]
  ELSE IF st.pos >= Len(Msgs) THEN [st |-> st, err |-> "Panic", msg |-> <<>>]
  ELSE
    LET acc == ReadTokens([st |-> st, err |-> "none", ptr |-> m], Msgs[st.pos + 1])
        r   == DecryptAndMixHash(acc.st.sym, PayloadOf(acc.ptr))
    IN  IF acc.err # "none" THEN Restore(st, acc.st, acc.err)
        ELSE IF ~r.ok THEN Restore(st, acc.st, "Decrypt")
        ELSE [st  |-> [acc.st EXCEPT !.sym = r.sym, !.myTurn = TRUE,
                                     !.cs = IF st.pos = Len(Msgs) - 1 THEN Split(r.sym) ELSE @,
                                     !.pos = @ + 1],
              err |-> "none", msg |-> <<>>, len |-> PayloadLen(r.sym, acc.ptr)]

-----------------------------------------------------------------------------
\* set_psk(location, key): a key is a value of PskKeys, or ShortKey for
\* one whose length is not PSKLEN.
ShortKey == "short"

SetPskOp(st, location, key) ==
  IF key = ShortKey \/ location >= NPSK THEN [st |-> st, err |-> "Input", msg |-> <<>>]
  ELSE [st |-> [st EXCEPT !.psks[location] = key], err |-> "none", msg |-> <<>>]

\* is_finished()
IsFinished(st) == st.pos = Len(Msgs)

\* was_write_payload_encrypted(): whether the symmetric state has a key now.
WasWritePayloadEncrypted(st) == HasKey(st.sym)

\* get_remote_static(): Some(rs) iff rs is on, as a set of at most one key.
GetRemoteStatic(st) == AsOptionRef(st.rs)

\* get_handshake_hash(): h of the symmetric state.
GetHandshakeHash(st) == st.sym.h

=============================================================================
