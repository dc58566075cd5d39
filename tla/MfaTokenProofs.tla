--------------------------- MODULE MfaTokenProofs ---------------------------
(* Machine-checked proofs about MfaToken, for any number of users, places, *)
(* handlers and token identifiers, and any lifetimes.                      *)
EXTENDS MfaToken, TLAPS

-----------------------------------------------------------------------------
(* The inductive invariant *)

Pcs == {"idle", "secret", "insert", "retry", "lookup"}

CallRecords == [pc : Pcs, user : Users \cup {NoOne}, place : Places \cup {NoOne},
                jti : Jtis \cup {NoOne}, exp : Nat, old : BOOLEAN]

(* Whose second factor a handler is about to vouch for *)
Holder(c) == Fingerprint(call[c].user, call[c].place)

(* A row of mfa_tokens is of a holder who passed the second factor, also   *)
(* the row a retry writes under a jti of its own.                          *)
RowsVerified == \A j \in DOMAIN table : table[j].fp \in verified

(* What a handler carries across its awaits: a known requester; a holder   *)
(* already verified when its token is signed; and, when the token it       *)
(* presents was revoked, a row that still says so.                         *)
CallSound(c) ==
    /\ call[c].pc # "idle" => call[c].user \in Users /\ call[c].place \in Places
    /\ call[c].pc \in {"insert", "retry", "lookup"} => call[c].jti \in Jtis
    /\ call[c].pc \in {"insert", "retry"} => Holder(c) \in verified
    /\ call[c].pc = "lookup" /\ call[c].old =>
         call[c].jti \in DOMAIN table /\ table[call[c].jti].revoked

CallsSound == \A c \in Calls : CallSound(c)

Inv == TypeOK /\ RowsVerified /\ CallsSound /\ AcceptedIsGenuine

-----------------------------------------------------------------------------
(* Frames *)

(* A handler that ends or never began claims nothing. *)
LEMMA IdleSound ==
    /\ Idle \in CallRecords
    /\ Idle.pc = "idle"
  BY DEF Idle, CallRecords, Pcs

(* No row is deleted and none is un-revoked: what RevokedNeverAccepted     *)
(* asks of the SQL every handler shares.                                   *)
RowsKept == \A j \in DOMAIN table :
                /\ j \in DOMAIN table'
                /\ table[j].revoked => table'[j].revoked

(* One handler moves while rows and verifications are only added: the      *)
(* others still carry what they carried.                                   *)
LEMMA OneCallMoves ==
    ASSUME Inv, NEW c \in Calls, NEW x \in CallRecords,
           call' = [call EXCEPT ![c] = x],
           CallSound(c)',
           RowsKept, verified \subseteq verified'
    PROVE  CallsSound' /\ call' \in [Calls -> CallRecords]
<1>1. call' \in [Calls -> CallRecords] /\ call'[c] = x
  BY DEF Inv, TypeOK, CallRecords, Pcs
<1>2. ASSUME NEW d \in Calls, d # c PROVE CallSound(d)'
  <2>1. call'[d] = call[d] /\ CallSound(d)
    BY <1>2 DEF Inv, TypeOK, CallsSound
  <2> QED
    BY <2>1 DEF CallSound, Holder, Inv, TypeOK, RowsKept
<1> QED
  BY <1>1, <1>2 DEF CallsSound

(* No handler moves. *)
LEMMA CallsStay ==
    ASSUME Inv, UNCHANGED call, RowsKept, verified \subseteq verified'
    PROVE  CallsSound'
  BY DEF CallsSound, CallSound, Holder, Inv, TypeOK, RowsKept

(* A handler ends and only handlers move. *)
LEMMA EndInv ==
    ASSUME Inv, NEW c \in Calls, Finish(c),
           UNCHANGED <<challenge, enrolled, table, issued, now, verified, accepted>>
    PROVE  Inv'
<1>1. CallSound(c)'
  BY IdleSound DEF Finish, CallSound, Inv, TypeOK
<1>2. CallsSound' /\ call' \in [Calls -> CallRecords]
  BY <1>1, IdleSound, OneCallMoves DEF Finish, RowsKept
<1> QED
  BY <1>2 DEF Inv, TypeOK, CallRecords, Pcs, RowsVerified, AcceptedIsGenuine,
     AcceptedWasVerified, RevokedNeverAccepted

LEMMA InitInv == Init => Inv
<1> SUFFICES ASSUME Init PROVE Inv
  OBVIOUS
<1>1. TypeOK
  BY TokenAssumption, IdleSound DEF Init, TypeOK, CallRecords, Pcs
<1>2. RowsVerified /\ CallsSound /\ AcceptedIsGenuine
  BY IdleSound DEF Init, RowsVerified, CallsSound, CallSound, AcceptedIsGenuine,
     AcceptedWasVerified, RevokedNeverAccepted
<1> QED
  BY <1>1, <1>2 DEF Inv

-----------------------------------------------------------------------------
(* One lemma per action *)

(* The first await of verifyTotp. *)
LEMMA VerifyInv ==
    ASSUME Inv, NEW c \in Calls, NEW u \in Users, NEW p \in Places, Verify(c, u, p)
    PROVE  Inv'
<1> DEFINE x == [Idle EXCEPT !.pc = "secret", !.user = u, !.place = p]
<1>1. x \in CallRecords /\ x.pc = "secret" /\ x.user = u /\ x.place = p
  BY DEF Idle, CallRecords, Pcs
<1>2. call' = [call EXCEPT ![c] = x]
  BY DEF Verify
<1> HIDE DEF x
<1>3. CallSound(c)'
  BY <1>1, <1>2 DEF CallSound, Inv, TypeOK
<1>4. CallsSound' /\ call' \in [Calls -> CallRecords]
  BY <1>1, <1>2, <1>3, OneCallMoves DEF Verify, RowsKept
<1> QED
  BY <1>4 DEF Verify, Inv, TypeOK, CallRecords, Pcs, RowsVerified, AcceptedIsGenuine,
     AcceptedWasVerified, RevokedNeverAccepted

(* Signing a token, after the code or from the demo endpoint, for a holder *)
(* the same step verifies.                                                 *)
LEMMA MintedInv ==
    ASSUME Inv, NEW c \in Calls, NEW u \in Users, NEW p \in Places, NEW j \in Jtis,
           Minted(c, u, p, j), verified' = verified \cup {Fingerprint(u, p)},
           UNCHANGED <<challenge, enrolled, table, issued, now, accepted>>
    PROVE  Inv'
<1> DEFINE x == [pc |-> "insert", user |-> u, place |-> p, jti |-> j,
                 exp |-> now + TokenTtl, old |-> FALSE]
<1>1. x \in CallRecords /\ x.pc = "insert" /\ x.user = u /\ x.place = p /\ x.jti = j
  BY TokenAssumption DEF CallRecords, Pcs, Inv, TypeOK
<1>2. call' = [call EXCEPT ![c] = x]
  BY DEF Minted
<1> HIDE DEF x
<1>3. CallSound(c)'
  BY <1>1, <1>2 DEF CallSound, Holder, Inv, TypeOK
<1>4. CallsSound' /\ call' \in [Calls -> CallRecords]
  BY <1>1, <1>2, <1>3, OneCallMoves DEF RowsKept
<1>5. Fingerprint(u, p) \in Fingerprints
  BY DEF Fingerprint, Fingerprints
<1> QED
  BY <1>4, <1>5 DEF Inv, TypeOK, CallRecords, Pcs, RowsVerified, AcceptedIsGenuine,
     AcceptedWasVerified, RevokedNeverAccepted

(* A code that verifies: the holder is known since the handler began. *)
LEMMA CheckCodeInv ==
    ASSUME Inv, NEW c \in Calls, NEW j \in Jtis, CheckCode(c, j)
    PROVE  Inv'
<1>1. call[c].user \in Users /\ call[c].place \in Places
  BY DEF CheckCode, Inv, CallsSound, CallSound
<1> QED
  BY <1>1, MintedInv DEF CheckCode

(* The demo mint verifies without a code. *)
LEMMA MintDemoInv ==
    ASSUME Inv, NEW c \in Calls, NEW u \in Users, NEW p \in Places, NEW j \in Jtis,
           MintDemo(c, u, p, j)
    PROVE  Inv'
  BY MintedInv DEF MintDemo

(* A row is written, under the token's own jti or the retry's, for the     *)
(* holder the handler verified.                                            *)
LEMMA StoredInv ==
    ASSUME Inv, NEW c \in Calls, NEW j \in Jtis, call[c].pc \in {"insert", "retry"},
           j \notin DOMAIN table, Stored(j, c), HandOut(c), Finish(c),
           UNCHANGED <<challenge, enrolled, now, verified, accepted>>
    PROVE  Inv'
<1>1. /\ Holder(c) \in verified /\ Holder(c) \in Fingerprints /\ call[c].jti \in Jtis
      /\ call[c].exp \in Nat
  <2>1. CallSound(c) /\ verified \subseteq Fingerprints
    BY DEF Inv, CallsSound, TypeOK
  <2>2. Holder(c) \in verified /\ call[c].jti \in Jtis
    BY <2>1 DEF CallSound
  <2>3. call[c].exp \in Nat
    BY DEF Inv, TypeOK
  <2> QED
    BY <2>1, <2>2, <2>3
<1>2. /\ DOMAIN table' = DOMAIN table \cup {j}
      /\ table'[j] = [fp |-> Holder(c), expiresAt |-> call[c].exp, revoked |-> FALSE]
      /\ \A k \in DOMAIN table : table'[k] = table[k]
  BY DEF Stored, Holder
<1>3. \A k \in DOMAIN table' : table'[k] \in TokenRows /\ table'[k].fp \in verified'
  <2>1. table'[j] \in TokenRows /\ table'[j].fp \in verified
    BY <1>1, <1>2 DEF TokenRows
  <2>2. \A k \in DOMAIN table : table[k] \in TokenRows /\ table[k].fp \in verified
    BY DEF Inv, TypeOK, RowsVerified
  <2> QED
    BY <1>2, <2>1, <2>2
<1>4. RowsKept
  BY <1>2 DEF RowsKept
<1>5. CallSound(c)'
  BY IdleSound DEF Finish, CallSound, Inv, TypeOK
<1>6. CallsSound' /\ call' \in [Calls -> CallRecords]
  BY <1>4, <1>5, IdleSound, OneCallMoves DEF Finish
<1>7. call[c].exp \div Second \in Nat
  BY <1>1, TokenAssumption
<1>8. issued' \subseteq [jti : Jtis, exp : Nat, fp : Fingerprints]
  BY <1>1, <1>7 DEF HandOut, Inv, TypeOK, Holder
<1> QED
  BY <1>2, <1>3, <1>6, <1>8 DEF Inv, TypeOK, CallRecords, Pcs, RowsVerified,
     AcceptedIsGenuine, AcceptedWasVerified, RevokedNeverAccepted

(* The first insert. *)
LEMMA InsertTokenInv ==
    ASSUME Inv, NEW c \in Calls, InsertToken(c)
    PROVE  Inv'
<1>1. call[c].jti \in Jtis
  BY DEF InsertToken, Inv, CallsSound, CallSound
<1> QED
  BY <1>1, StoredInv DEF InsertToken

(* The one retry after a collision. *)
LEMMA RetryTokenInv ==
    ASSUME Inv, NEW c \in Calls, NEW j \in Jtis, RetryToken(c, j)
    PROVE  Inv'
  BY StoredInv DEF RetryToken

(* A collision: the handler keeps what it carries. *)
LEMMA CollisionInv ==
    ASSUME Inv, NEW c \in Calls, Collision(c)
    PROVE  Inv'
<1> DEFINE x == [call[c] EXCEPT !.pc = "retry"]
<1>1. /\ x \in CallRecords /\ x.pc = "retry" /\ x.user = call[c].user
      /\ x.place = call[c].place /\ x.jti = call[c].jti
  BY DEF CallRecords, Pcs, Inv, TypeOK
<1>2. call' = [call EXCEPT ![c] = x]
  BY DEF Collision, Goto
<1> HIDE DEF x
<1>3. CallSound(c)'
  BY <1>1, <1>2 DEF Collision, CallsSound, CallSound, Holder, Inv, TypeOK
<1>4. CallsSound' /\ call' \in [Calls -> CallRecords]
  BY <1>1, <1>2, <1>3, OneCallMoves DEF Collision, RowsKept
<1> QED
  BY <1>4 DEF Collision, Inv, TypeOK, CallRecords, Pcs, RowsVerified, AcceptedIsGenuine,
     AcceptedWasVerified, RevokedNeverAccepted

(* A token is presented: whether its row is revoked is noted before the    *)
(* SELECT that decides.                                                    *)
LEMMA PresentInv ==
    ASSUME Inv, NEW c \in Calls, NEW t \in issued, NEW u \in Users, NEW p \in Places,
           Present(c, t, u, p)
    PROVE  Inv'
<1> DEFINE x == [pc |-> "lookup", user |-> u, place |-> p, jti |-> t.jti, exp |-> 0,
                 old |-> t.jti \in DOMAIN table /\ table[t.jti].revoked]
<1>0. t.jti \in Jtis
  BY DEF Inv, TypeOK
<1>1. /\ x \in CallRecords /\ x.pc = "lookup" /\ x.user = u /\ x.place = p /\ x.jti = t.jti
      /\ x.old => t.jti \in DOMAIN table /\ table[t.jti].revoked
  <2>1. (t.jti \in DOMAIN table /\ table[t.jti].revoked) \in BOOLEAN
    OBVIOUS
  <2> QED
    BY <1>0, <2>1 DEF CallRecords, Pcs, Inv, TypeOK
<1>2. call' = [call EXCEPT ![c] = x]
  BY DEF Present
<1> HIDE DEF x
<1>3. CallSound(c)'
  BY <1>0, <1>1, <1>2 DEF Present, CallSound, Inv, TypeOK
<1>4. CallsSound' /\ call' \in [Calls -> CallRecords]
  BY <1>1, <1>2, <1>3, OneCallMoves DEF Present, RowsKept
<1> QED
  BY <1>4 DEF Present, Inv, TypeOK, CallRecords, Pcs, RowsVerified, AcceptedIsGenuine,
     AcceptedWasVerified, RevokedNeverAccepted

(* The SELECT: a row that accepts is of a verified holder, the presenter,  *)
(* and was not revoked when the token came in.                             *)
LEMMA ValidateInv ==
    ASSUME Inv, NEW c \in Calls, Validate(c)
    PROVE  Inv'
<1> DEFINE j == call[c].jti
           a == [jti |-> j, fp |-> Holder(c), old |-> call[c].old]
<1>1. \/ accepted' = accepted
      \/ /\ accepted' = accepted \cup {a} /\ j \in DOMAIN table
         /\ ~table[j].revoked /\ table[j].fp = Holder(c)
  BY DEF Validate, Holder, RowAccepts
<1>2. call[c].pc = "lookup" /\ CallSound(c) /\ call[c].old \in BOOLEAN
  BY DEF Validate, Inv, CallsSound, TypeOK
<1>3. CASE accepted' = accepted
  BY <1>3, EndInv DEF Validate
<1>4. CASE /\ accepted' = accepted \cup {a} /\ j \in DOMAIN table
           /\ ~table[j].revoked /\ table[j].fp = Holder(c)
  <2>1. Holder(c) \in verified /\ ~call[c].old
    BY <1>2, <1>4 DEF CallSound, Inv, RowsVerified
  <2>2. a.fp \in verified /\ ~a.old /\ a \in [jti : Jtis, fp : Fingerprints, old : BOOLEAN]
    BY <1>2, <1>4, <2>1 DEF Inv, TypeOK
  <2> HIDE DEF a
  <2>3. CallSound(c)'
    BY IdleSound DEF Validate, Finish, CallSound, Inv, TypeOK
  <2>4. CallsSound' /\ call' \in [Calls -> CallRecords]
    BY <2>3, IdleSound, OneCallMoves DEF Validate, Finish, RowsKept
  <2>5. AcceptedIsGenuine'
    BY <1>4, <2>2 DEF Validate, Inv, AcceptedIsGenuine, AcceptedWasVerified,
       RevokedNeverAccepted
  <2> QED
    BY <1>4, <2>2, <2>4, <2>5 DEF Validate, Inv, TypeOK, CallRecords, Pcs, RowsVerified
<1> QED
  BY <1>1, <1>3, <1>4

(* A token is revoked under the handlers that look it up. *)
LEMMA RevokeTokenInv ==
    ASSUME Inv, NEW j \in Jtis, RevokeToken(j)
    PROVE  Inv'
<1>1. /\ DOMAIN table' = DOMAIN table
      /\ \A k \in DOMAIN table :
           /\ table'[k] \in TokenRows /\ table'[k].fp = table[k].fp
           /\ table[k].revoked => table'[k].revoked
  BY DEF RevokeToken, Inv, TypeOK, TokenRows
<1>2. CallsSound'
  BY <1>1, CallsStay DEF RevokeToken, RowsKept
<1>3. RowsVerified'
  BY <1>1 DEF RevokeToken, Inv, RowsVerified
<1>4. TypeOK'
  BY <1>1 DEF RevokeToken, Inv, TypeOK
<1> QED
  BY <1>2, <1>3, <1>4 DEF RevokeToken, Inv, AcceptedIsGenuine, AcceptedWasVerified,
     RevokedNeverAccepted

(* Challenges, enrollments and the clock touch no token. *)
LEMMA QuietInv ==
    ASSUME Inv, UNCHANGED <<table, issued, call, verified, accepted>>,
           challenge' \in Nat \cup {-1}, enrolled' \in SUBSET Users, now' \in 0..MaxNow
    PROVE  Inv'
<1>1. CallsSound'
  BY CallsStay DEF RowsKept
<1> QED
  BY <1>1 DEF Inv, TypeOK, RowsVerified, AcceptedIsGenuine, AcceptedWasVerified,
     RevokedNeverAccepted

(* Every step of the service keeps the invariant. *)
LEMMA NextInv == Inv /\ [Next]_vars => Inv'
<1> SUFFICES ASSUME Inv, [Next]_vars PROVE Inv'
  OBVIOUS
<1>0. now \in 0..MaxNow /\ challenge \in Nat \cup {-1} /\ enrolled \in SUBSET Users
  BY DEF Inv, TypeOK
<1>1. ASSUME NEW c \in Calls, NEW u \in Users, NEW p \in Places,
             \/ Verify(c, u, p)
             \/ \E j \in Jtis : MintDemo(c, u, p, j)
             \/ \E t \in issued : Present(c, t, u, p)
      PROVE  Inv'
  BY <1>1, VerifyInv, MintDemoInv, PresentInv
<1>2. ASSUME NEW c \in Calls, NEW j \in Jtis, CheckCode(c, j) \/ RetryToken(c, j)
      PROVE  Inv'
  BY <1>2, CheckCodeInv, RetryTokenInv
<1>3. ASSUME NEW c \in Calls,
             \/ CodeRefused(c) \/ InsertToken(c) \/ Collision(c) \/ InsertThrows(c)
             \/ Validate(c) \/ LookupThrows(c)
      PROVE  Inv'
  <2>1. CASE CodeRefused(c) \/ InsertThrows(c) \/ LookupThrows(c)
    BY <2>1, EndInv DEF CodeRefused, InsertThrows, LookupThrows
  <2> QED
    BY <1>3, <2>1, InsertTokenInv, CollisionInv, ValidateInv
<1>4. CASE CreateChallenge
  BY <1>0, <1>4, TokenAssumption, QuietInv DEF CreateChallenge
<1>5. CASE \E u \in Users : EnrollOrReset(u)
  BY <1>0, <1>5, QuietInv DEF EnrollOrReset
<1>6. CASE \E j \in Jtis : RevokeToken(j)
  BY <1>6, RevokeTokenInv
<1>7. CASE Tick
  BY <1>0, <1>7, TokenAssumption, QuietInv DEF Tick
<1>8. CASE UNCHANGED vars
  BY <1>0, <1>8, QuietInv DEF vars
<1> QED
  BY <1>1, <1>2, <1>3, <1>4, <1>5, <1>6, <1>7, <1>8 DEF Next

-----------------------------------------------------------------------------
(* The theorems *)

(* The inductive invariant holds in every state of the token service.      *)
THEOREM InvHolds == Spec => []Inv
  BY InitInv, NextInv, PTL DEF Spec

(* The tables and the handlers keep their types.                           *)
THEOREM TypeCorrect == Spec => []TypeOK
  BY InvHolds, PTL DEF Inv

(* validateMfaToken accepts only the token of a verified holder, presented *)
(* by that holder before it was revoked, however handlers interleave and   *)
(* however often randomUUID repeats itself.                                *)
THEOREM GenuineTheorem == Spec => []AcceptedIsGenuine
  BY InvHolds, PTL DEF Inv

=============================================================================
