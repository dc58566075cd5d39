-------------------------------- MODULE Totp --------------------------------
(***************************************************************************)
(* TOTP codes (src/shared/totp.util.ts): the secret of an enrollment goes  *)
(* to the authenticator as base32 text and is decoded again for every      *)
(* verify(), which accepts the steps around the gateway's own clock.       *)
(*                                                                         *)
(* A `number' of the code is a word of 32 bits: bits shifted past its top  *)
(* are lost.  HMAC-SHA1 is external and taken as one-to-one on key and     *)
(* counter.                                                                *)
(***************************************************************************)
EXTENDS Integers, Sequences

CONSTANTS Secrets,  \* what randomBytes(20) may return
          Period,   \* seconds per step, in ticks
          Skews,    \* how far the authenticator's clock may be off
          Start,    \* when the instance begins
          MaxClock  \* bound: time

(* What an instance must satisfy *)
TotpAssumption ==
    /\ Secrets \subseteq [1..20 -> 0..255]
    /\ Period \in Nat \ {0} /\ Start \in Nat /\ MaxClock \in Nat /\ Start <= MaxClock
    /\ Skews \subseteq Int /\ \A k \in Skews : Start + k >= 0

-----------------------------------------------------------------------------
(* base32 *)

ToBits(n, width) == [i \in 1..width |-> (n \div 2^(width - i)) % 2]
Value(bits) ==
    LET v[i \in 0..Len(bits)] == IF i = 0 THEN 0 ELSE 2 * v[i - 1] + bits[i]
    IN  v[Len(bits)]

(* (buf << n) | value, in 32 bits *)
ShiftIn(buf, value, n) ==
    LET wide == buf \o ToBits(value, n)
    IN  IF Len(wide) <= 32 THEN wide ELSE SubSeq(wide, Len(wide) - 31, Len(wide))

(* (buf >>> (bits - n)) & (2^n - 1) *)
Extract(buf, bits, n) ==
    Value(SubSeq(buf, Len(buf) - bits + 1, Len(buf) - bits + n))

NoBits == [buf |-> << >>, bits |-> 0, out |-> << >>]

DecodeStep(s, ch) ==
    LET buf == ShiftIn(s.buf, ch, 5)
        bits == s.bits + 5
    IN  IF bits >= 8
        THEN [buf |-> buf, bits |-> bits - 8, out |-> Append(s.out, Extract(buf, bits, 8))]
        ELSE [buf |-> buf, bits |-> bits, out |-> s.out]

Base32Decode(chars) ==
    LET after[i \in 0..Len(chars)] ==
            IF i = 0 THEN NoBits ELSE DecodeStep(after[i - 1], chars[i])
    IN  after[Len(chars)].out

(* Two characters, or one, per byte *)
EncodeStep(s, byte) ==
    LET buf == ShiftIn(s.buf, byte, 8)
        bits == s.bits + 8
    IN  [buf |-> buf, bits |-> bits % 5,
         out |-> s.out \o [k \in 1..(bits \div 5) |-> Extract(buf, bits - 5 * (k - 1), 5)]]

(* 160 bits leave none over *)
Base32Encode(bytes) ==
    LET after[i \in 0..Len(bytes)] ==
            IF i = 0 THEN NoBits ELSE EncodeStep(after[i - 1], bytes[i])
        end == after[Len(bytes)]
    IN  IF end.bits = 0 THEN end.out
        ELSE Append(end.out, Extract(end.buf, end.bits, end.bits) * 2^(5 - end.bits))

Hotp(key, counter) == <<key, counter>>

CurrentCounter(time) == time \div Period

-----------------------------------------------------------------------------

VARIABLES text,     \* the secret in base32, as stored and as sent to the authenticator
          clock,    \* the gateway's clock
          shown,    \* the code the user reads off, and the authenticator's time
          verdict   \* what verify() said of it, and when

vars == <<text, clock, shown, verdict>>

NoCode == [code |-> << >>, time |-> 0]
NoVerdict == [valid |-> FALSE, at |-> 0]

Init ==
    /\ text = << >> /\ clock = Start
    /\ shown = NoCode /\ verdict = NoVerdict

GenerateSecret(bytes) ==
    /\ text = << >>
    /\ text' = Base32Encode(bytes)
    /\ UNCHANGED <<clock, shown, verdict>>

(* External: the authenticator reads the text as RFC 4648 has it, eight    *)
(* bits of the joined groups at a time, and shows the code of its own time *)
Joined(chars) ==
    [k \in 1..(5 * Len(chars)) |-> ToBits(chars[((k - 1) \div 5) + 1], 5)[((k - 1) % 5) + 1]]
AuthenticatorKey(chars) ==
    [i \in 1..((5 * Len(chars)) \div 8) |-> Value(SubSeq(Joined(chars), 8 * i - 7, 8 * i))]

Show(skew) ==
    /\ text # << >> /\ shown = NoCode
    /\ shown' = [code |-> Hotp(AuthenticatorKey(text), CurrentCounter(clock + skew)),
                 time |-> clock + skew]
    /\ UNCHANGED <<text, clock, verdict>>

FaultyDeltas == {-1, 0}

Deltas == {-1, 0, 1}

Verify ==
    /\ shown # NoCode /\ verdict = NoVerdict
    /\ verdict' = [valid |-> \E d \in Deltas :
                       Hotp(Base32Decode(text), CurrentCounter(clock) + d) = shown.code,
                   at |-> clock]
    /\ UNCHANGED <<text, clock, shown>>

(* The next code is read *)
NextCode ==
    /\ verdict # NoVerdict
    /\ shown' = NoCode /\ verdict' = NoVerdict
    /\ UNCHANGED <<text, clock>>

Tick == clock < MaxClock /\ clock' = clock + 1 /\ UNCHANGED <<text, shown, verdict>>

Next ==
    \/ \E s \in Secrets : GenerateSecret(s)
    \/ \E k \in Skews : Show(k)
    \/ Verify \/ NextCode \/ Tick

Spec == Init /\ [][Next]_vars

-----------------------------------------------------------------------------
(* Properties *)

(* Types of the clock and the stored text. *)
TypeOK ==
    /\ clock \in Start..MaxClock
    /\ text = << >> \/ text \in [1..32 -> 0..31]
    /\ shown.time \in Nat /\ verdict.valid \in BOOLEAN

(* D-04: gateway and authenticator agree.  What the authenticator reads is *)
(* the secret that was generated, and whatever the secret, a code that     *)
(* reaches verify() within one period of the time the authenticator read   *)
(* is accepted, early or late, wherever in its step it was read; one that  *)
(* is two periods off is not.                                              *)
AuthenticatorAgrees ==
    /\ text # << >> => AuthenticatorKey(text) \in Secrets
    /\ verdict # NoVerdict =>
        LET lag == verdict.at - shown.time
        IN  /\ lag \in (-Period)..Period => verdict.valid
            /\ lag \notin (1 - 2 * Period)..(2 * Period - 1) => ~verdict.valid

=============================================================================
