-------------------------- MODULE OneTimeCodeProofs --------------------------
(***************************************************************************)
(* Theorems about OneTimeCode, for any number of requests, codes and       *)
(* guesses and any lifetimes.                                              *)
(***************************************************************************)
EXTENDS OneTimeCode, TLAPS

Pcs == {"idle", "issuing", "stored", "sending", "failed", "read", "verified"}
ReqType == [pc : Pcs, code : Codes \cup {NoCode}, payload : Otp]

(* The entries and histories have their types; a code was stored before now. *)
PlainOK ==
  /\ now \in 0 .. MaxNow /\ service \in Services /\ otp \in Otp
  /\ resend \in 0 .. MaxNow + Cooldown /\ issued \in 0 .. MaxCodes
  /\ gone \in BOOLEAN /\ overlapped \in BOOLEAN
  /\ born \in [Codes -> 0 .. MaxNow]
  /\ mail \in [Codes -> {"none", "sent", "failed"}]
  /\ wrong \in [Codes -> 0 .. MaxGuesses]
  /\ used \in [Codes -> 0 .. MaxGuesses]
  /\ \A c \in Codes : c =< issued => born[c] =< now

(* What was read from the cache, or is in it, is of a code that was issued *)
(* and expires when that code does, however often it was written back.     *)
EntryOK(p) ==
  p = NoOtp \/ (p.code \in 1 .. issued /\ p.expires = born[p.code] + CodeTTL)
ReadOK(q) == EntryOK(q.payload) /\ (q.pc = "read" => q.payload # NoOtp)
EntriesOK ==
  /\ req \in [Requests -> ReqType]
  /\ EntryOK(otp) /\ \A r \in Requests : ReadOK(req[r])

(* Until requests overlap.  A code that was mailed and not used:           *)
Open(c) == c =< issued /\ mail[c] = "sent" /\ used[c] = 0
Past(c) == now >= born[c] + Cooldown

(* The entry is that of the newest code, which was not used, and counts    *)
(* the guesses it was compared with.                                       *)
NewestOK ==
  otp # NoOtp =>
    /\ otp.code = issued /\ used[issued] = 0 /\ wrong[issued] = otp.attempts
    /\ service = "EventDeletion" => mail[issued] # "failed"
CountsOK ==
  \A c \in Codes :
    /\ used[c] =< 1 /\ wrong[c] =< MaxAttempts
    /\ c > issued => used[c] = 0 /\ wrong[c] = 0 /\ mail[c] = "none"

(* The next code keeps its distance: to those before the newest by their   *)
(* birth, to the newest by the cooldown.                                   *)
DistanceOK ==
  /\ \A c, d \in Codes : c < d /\ d =< issued /\ Open(c) => born[d] >= born[c] + Cooldown
  /\ \A c \in Codes : Open(c) => resend >= born[c] + Cooldown \/ Past(c)
CodesOK == NewestOK /\ CountsOK /\ DistanceOK

TurnOK(q) ==
  /\ q.pc = "read" => q.payload = otp
  /\ q.pc = "issuing" => \A c \in Codes : Open(c) => Past(c)
  /\ q.pc \in {"stored", "sending"} => q.code = issued /\ issued \in Codes
  /\ q.pc = "sending" => resend >= born[issued] + Cooldown
  /\ q.pc \in {"verified", "failed"} => issued \in Codes /\ ~ Open(issued)
Alone ==
  /\ \A q, r \in Requests : req[q] # Idle /\ req[r] # Idle => q = r
  /\ \A r \in Requests : TurnOK(req[r])
  /\ CodesOK
AloneInv == ~ overlapped => Alone

IInv == PlainOK /\ EntriesOK /\ AloneInv

-----------------------------------------------------------------------------
LEMMA Durations ==
  /\ CodeTTL \in Nat /\ CodeTTL >= 1 /\ Cooldown \in Nat /\ Cooldown >= 1
  /\ MaxAttempts \in Nat /\ MaxAttempts >= 1
  /\ MaxCodes \in Nat /\ MaxNow \in Nat /\ MaxGuesses \in Nat
BY CodeAssumption

LEMMA NoOtpOK == NoOtp \in Otp /\ NoOtp.code = NoCode /\ NoOtp.until = 0
BY Durations DEF NoOtp, Otp, NoCode

LEMMA IdleOK == Idle \in ReqType /\ Idle.pc = "idle" /\ Idle.payload = NoOtp
BY NoOtpOK DEF Idle, ReqType, Pcs

(* An issued code is a code.                                               *)
LEMMA IssuedCodes ==
  ASSUME PlainOK, NEW c \in 1 .. issued
  PROVE  c \in Codes /\ c =< issued
BY Durations DEF PlainOK, Codes

-----------------------------------------------------------------------------
(* A request takes a step: what is left to show of it.                     *)
LEMMA StepKeeps ==
  ASSUME IInv, NEW r \in Requests, NEW q \in ReqType, req' = [req EXCEPT ![r] = q],
         PlainOK', issued' \in Int, issued' >= issued,
         \A c \in 1 .. issued : born'[c] = born[c],
         EntryOK(otp)', ReadOK(q)',
         ~ overlapped' => /\ \A s \in Requests \ {r} : req[s] = Idle
                          /\ TurnOK(q)' /\ CodesOK'
  PROVE  IInv'
<1>1. req' \in [Requests -> ReqType]
  BY DEF IInv, EntriesOK
<1>2. req'[r] = q /\ \A s \in Requests \ {r} : req'[s] = req[s]
  BY DEF IInv, EntriesOK
<1>3. ASSUME NEW s \in Requests PROVE ReadOK(req[s])'
  <2>1. CASE s = r
    BY <1>2, <2>1 DEF ReadOK, EntryOK
  <2>2. CASE s # r
    <3>1. PICK p : p = req[s].payload /\ EntryOK(p)
      BY DEF IInv, EntriesOK, ReadOK
    <3>2. issued \in Int
      BY DEF IInv, PlainOK
    <3>3. p = NoOtp \/ (p.code \in 1 .. issued' /\ p.expires = born'[p.code] + CodeTTL)
      BY <3>1, <3>2 DEF EntryOK
    <3>4. req'[s] = req[s] /\ (req[s].pc = "read" => req[s].payload # NoOtp)
      BY <1>2, <2>2 DEF IInv, EntriesOK, ReadOK
    <3> QED BY <3>1, <3>3, <3>4 DEF ReadOK, EntryOK
  <2> QED BY <2>1, <2>2
<1>4. ASSUME ~ overlapped' PROVE Alone'
  <2>1. \A s \in Requests \ {r} : req'[s] = Idle
    BY <1>2, <1>4
  <2>2. ASSUME NEW s \in Requests PROVE TurnOK(req[s])'
    <3>1. CASE s = r
      BY <1>2, <1>4, <3>1 DEF TurnOK
    <3>2. CASE s # r
      BY <2>1, <3>2, IdleOK DEF TurnOK
    <3> QED BY <3>1, <3>2
  <2> QED BY <1>4, <2>1, <2>2 DEF Alone
<1> QED BY <1>1, <1>3, <1>4 DEF IInv, EntriesOK, AloneInv

(* What is known of the request whose turn it is.                          *)
LEMMA Turn ==
  ASSUME IInv, NEW r \in Requests, req[r].pc # "idle"
  PROVE  /\ req[r] \in ReqType /\ ReadOK(req[r]) /\ EntryOK(otp) /\ PlainOK
         /\ ~ overlapped => /\ \A s \in Requests \ {r} : req[s] = Idle
                            /\ TurnOK(req[r]) /\ CodesOK
<1>1. req[r] # Idle
  BY IdleOK
<1> QED BY <1>1 DEF IInv, EntriesOK, AloneInv, Alone

(* A request that is idle starts: alone only if all others are idle.       *)
LEMMA ArrivesAlone ==
  ASSUME IInv, overlapped' = (overlapped \/ \E q \in Requests : req[q] # Idle), ~ overlapped'
  PROVE  ~ overlapped /\ (\A s \in Requests : req[s] = Idle) /\ CodesOK
BY DEF IInv, AloneInv, Alone

LEMMA UntilNotEmpty ==
  ASSUME PlainOK, now < otp.until
  PROVE  otp # NoOtp
BY NoOtpOK, Durations DEF PlainOK

(* The caches and the histories are left alone.                            *)
LEMMA CodesStay ==
  ASSUME CodesOK, UNCHANGED <<now, service, otp, resend, issued, history>>
  PROVE  CodesOK'
BY DEF CodesOK, NewestOK, CountsOK, DistanceOK, Open, Past, history

LEMMA PlainStays ==
  ASSUME PlainOK, UNCHANGED <<now, service, otp, resend, issued, history, gone>>,
         overlapped' \in BOOLEAN
  PROVE  PlainOK'
BY DEF PlainOK, history

LEMMA MayIssueKeeps ==
  ASSUME IInv, NEW r \in Requests, MayIssue(r)
  PROVE  IInv'
<1>1. /\ req[r].pc = "idle" /\ now >= resend /\ req' = [req EXCEPT ![r].pc = "issuing"]
      /\ overlapped' = (overlapped \/ \E s \in Requests : req[s] # Idle)
      /\ UNCHANGED <<now, service, otp, resend, issued, gone, history>>
  BY DEF MayIssue
<1>2. PICK old \in ReqType : old = req[r] /\ ReadOK(old)
  BY DEF IInv, EntriesOK
<1>3. PICK q : q = [old EXCEPT !.pc = "issuing"]
  OBVIOUS
<1>4. req' = [req EXCEPT ![r] = q]
  BY <1>1, <1>2, <1>3
<1>5. q \in ReqType /\ q.pc = "issuing" /\ q.payload = old.payload
  BY <1>3 DEF ReqType, Pcs
<1>6. PlainOK'
  <2>1. overlapped' \in BOOLEAN
    BY <1>1 DEF IInv, PlainOK
  <2> QED BY <1>1, <2>1, PlainStays DEF IInv
<1>7. EntryOK(otp)' /\ ReadOK(q)'
  BY <1>1, <1>2, <1>5 DEF EntryOK, ReadOK, IInv, EntriesOK, history
<1>8. ASSUME ~ overlapped'
      PROVE  (\A s \in Requests \ {r} : req[s] = Idle) /\ TurnOK(q)' /\ CodesOK'
  <2>1. (\A s \in Requests : req[s] = Idle) /\ CodesOK
    BY <1>1, <1>8, ArrivesAlone
  <2>2. CodesOK'
    BY <1>1, <2>1, CodesStay
  <2>3. ASSUME NEW c \in Codes, Open(c) PROVE Past(c)
    <3>1. resend >= born[c] + Cooldown \/ Past(c)
      BY <2>1, <2>3 DEF CodesOK, DistanceOK
    <3>2. now \in Int /\ resend \in Int /\ born[c] \in Int /\ Cooldown \in Int
      BY Durations DEF IInv, PlainOK
    <3> QED BY <1>1, <3>1, <3>2 DEF Past
  <2>4. TurnOK(q)'
    BY <1>1, <1>5, <2>3 DEF TurnOK, Open, Past, history
  <2> QED BY <2>1, <2>2, <2>4
<1>9. issued' \in Int /\ issued' >= issued /\ \A c \in 1 .. issued : born'[c] = born[c]
  BY <1>1 DEF IInv, PlainOK, history
<1> QED BY <1>4, <1>5, <1>6, <1>7, <1>8, <1>9, StepKeeps

LEMMA GetKeeps ==
  ASSUME IInv, NEW r \in Requests, Get(r)
  PROVE  IInv'
<1>1. PICK guess \in {NoCode} \cup Codes :
        req' = [req EXCEPT ![r] = [pc |-> "read", code |-> guess, payload |-> otp]]
  BY DEF Get
<1>2. /\ now < otp.until
      /\ overlapped' = (overlapped \/ \E s \in Requests : req[s] # Idle)
      /\ UNCHANGED <<now, service, otp, resend, issued, gone, history>>
  BY DEF Get
<1>3. PICK q : q = [pc |-> "read", code |-> guess, payload |-> otp]
  OBVIOUS
<1>4. q \in ReqType /\ q.pc = "read" /\ q.payload = otp
  BY <1>3 DEF ReqType, Pcs, IInv, PlainOK
<1>5. PlainOK'
  <2>1. overlapped' \in BOOLEAN
    BY <1>2 DEF IInv, PlainOK
  <2> QED BY <1>2, <2>1, PlainStays DEF IInv
<1>6. EntryOK(otp)' /\ ReadOK(q)'
  <2>1. otp # NoOtp /\ EntryOK(otp)
    BY <1>2, UntilNotEmpty DEF IInv, EntriesOK
  <2> QED BY <1>2, <1>4, <2>1 DEF EntryOK, ReadOK, history
<1>7. ASSUME ~ overlapped'
      PROVE  (\A s \in Requests \ {r} : req[s] = Idle) /\ TurnOK(q)' /\ CodesOK'
  <2>1. (\A s \in Requests : req[s] = Idle) /\ CodesOK
    BY <1>2, <1>7, ArrivesAlone
  <2>2. CodesOK'
    BY <1>2, <2>1, CodesStay
  <2>3. TurnOK(q)'
    BY <1>2, <1>4 DEF TurnOK
  <2> QED BY <2>1, <2>2, <2>3
<1>8. issued' \in Int /\ issued' >= issued /\ \A c \in 1 .. issued : born'[c] = born[c]
  BY <1>2 DEF IInv, PlainOK, history
<1> QED BY <1>1, <1>3, <1>4, <1>5, <1>6, <1>7, <1>8, StepKeeps

(* Time passes: what lies behind stays behind.                             *)
LEMMA TickKeeps ==
  ASSUME IInv, Tick
  PROVE  IInv'
<1>1. /\ now < MaxNow /\ now' = now + 1
      /\ UNCHANGED <<service, otp, resend, issued, gone, req, history, overlapped>>
  BY DEF Tick
<1>2. UNCHANGED <<born, mail, wrong, used>>
  BY <1>1 DEF history
<1>3. PlainOK'
  <2>1. now' \in 0 .. MaxNow
    BY <1>1, Durations DEF IInv, PlainOK
  <2>2. \A c \in Codes : c =< issued => born[c] =< now'
    BY <1>1 DEF IInv, PlainOK
  <2> QED BY <1>1, <1>2, <2>1, <2>2 DEF IInv, PlainOK
<1>4. EntriesOK'
  BY <1>1, <1>2 DEF IInv, EntriesOK, ReadOK, EntryOK
<1>5. \A c \in Codes : (Open(c)' <=> Open(c)) /\ (Past(c) => Past(c)')
  <2> SUFFICES ASSUME NEW c \in Codes PROVE (Open(c)' <=> Open(c)) /\ (Past(c) => Past(c)')
    OBVIOUS
  <2>1. born[c] \in Int /\ now \in Int /\ Cooldown \in Int
    BY Durations DEF IInv, PlainOK
  <2> QED BY <1>1, <1>2, <2>1 DEF Open, Past
<1>6. AloneInv'
  <2> SUFFICES ASSUME ~ overlapped PROVE Alone'
    BY <1>1 DEF AloneInv
  <2>1. Alone
    BY DEF IInv, AloneInv
  <2>2. CodesOK'
    <3>1. NewestOK' /\ CountsOK'
      BY <1>1, <1>2, <2>1 DEF Alone, CodesOK, NewestOK, CountsOK
    <3>2. DistanceOK'
      BY <1>1, <1>2, <1>5, <2>1 DEF Alone, CodesOK, DistanceOK
    <3> QED BY <3>1, <3>2 DEF CodesOK
  <2>3. ASSUME NEW r \in Requests PROVE TurnOK(req[r])'
    <3>1. TurnOK(req[r])
      BY <2>1 DEF Alone
    <3>2. issued \in Codes => (Open(issued)' => Open(issued))
      BY <1>1, <1>2 DEF Open
    <3>3. req[r].pc = "issuing" => \A c \in Codes : Open(c)' => Past(c)'
      BY <1>5, <3>1 DEF TurnOK
    <3>4. req[r].pc \in {"verified", "failed"} => issued \in Codes /\ ~ Open(issued)'
      BY <3>1, <3>2 DEF TurnOK
    <3> QED BY <1>1, <1>2, <3>1, <3>3, <3>4 DEF TurnOK, Open
  <2> QED BY <1>1, <2>1, <2>2, <2>3 DEF Alone
<1> QED BY <1>3, <1>4, <1>6 DEF IInv

-----------------------------------------------------------------------------
(* issue(): a new code is stored, later than any open one by the cooldown. *)
LEMMA StoreKeeps ==
  ASSUME IInv, NEW r \in Requests, Store(r)
  PROVE  IInv'
<1>1. /\ req[r].pc = "issuing" /\ issued < MaxCodes /\ issued' = issued + 1
      /\ otp' = NewOtp(issued + 1) /\ born' = [born EXCEPT ![issued + 1] = now]
      /\ req' = [req EXCEPT ![r] = [Idle EXCEPT !.pc = "stored", !.code = issued + 1]]
      /\ UNCHANGED <<now, service, resend, gone, mail, wrong, used, overlapped>>
  BY DEF Store, Stored
<1>2. PICK new \in Codes : new = issued + 1
  BY <1>1, Durations DEF Codes, IInv, PlainOK
<1>3. PICK q : q = [Idle EXCEPT !.pc = "stored", !.code = new]
  OBVIOUS
<1>4. q \in ReqType /\ q.pc = "stored" /\ q.code = new /\ q.payload = NoOtp
  BY <1>3, IdleOK DEF ReqType, Pcs
<1>5. born'[new] = now /\ \A c \in Codes \ {new} : born'[c] = born[c]
  BY <1>1, <1>2 DEF IInv, PlainOK
<1>6. otp' \in Otp /\ otp'.code = new /\ otp'.expires = now + CodeTTL /\ otp'.attempts = 0
  <2>1. now + CodeTTL \in 0 .. MaxNow + CodeTTL /\ 0 \in 0 .. MaxAttempts - 1
    BY Durations DEF IInv, PlainOK
  <2> QED BY <1>1, <1>2, <2>1 DEF NewOtp, Otp
<1>7. PlainOK'
  <2>1. issued' \in 0 .. MaxCodes
    BY <1>1, Durations DEF IInv, PlainOK
  <2>2. born' \in [Codes -> 0 .. MaxNow]
    BY <1>1, <1>2 DEF IInv, PlainOK
  <2>3. ASSUME NEW c \in Codes, c =< issued' PROVE born'[c] =< now'
    <3>1. CASE c = new
      BY <1>1, <1>5, <3>1, Durations DEF IInv, PlainOK
    <3>2. CASE c # new
      <4>1. c =< issued
        BY <1>1, <1>2, <2>3, <3>2, Durations DEF IInv, PlainOK, Codes
      <4> QED BY <1>1, <1>5, <3>2, <4>1 DEF IInv, PlainOK
    <3> QED BY <3>1, <3>2
  <2> QED BY <1>1, <1>6, <2>1, <2>2, <2>3 DEF IInv, PlainOK
<1>8. EntryOK(otp)' /\ ReadOK(q)'
  <2>1. new \in 1 .. issued'
    BY <1>1, <1>2, Durations DEF IInv, PlainOK
  <2> QED BY <1>4, <1>5, <1>6, <2>1 DEF EntryOK, ReadOK
<1>9. ASSUME ~ overlapped'
      PROVE  (\A s \in Requests \ {r} : req[s] = Idle) /\ TurnOK(q)' /\ CodesOK'
  <2>1. (\A s \in Requests \ {r} : req[s] = Idle) /\ TurnOK(req[r]) /\ CodesOK
    BY <1>1, <1>9, Turn
  <2>2. TurnOK(q)'
    BY <1>1, <1>2, <1>4 DEF TurnOK
  <2>3. issued \in Nat /\ new > issued
    BY <1>2, Durations DEF IInv, PlainOK
  <2>4. used[new] = 0 /\ wrong[new] = 0 /\ mail[new] = "none"
    BY <2>1, <2>3 DEF CodesOK, CountsOK
  <2>5. NewestOK'
    BY <1>1, <1>2, <1>6, <2>4 DEF NewestOK
  <2>6. CountsOK'
    <3> SUFFICES ASSUME NEW c \in Codes
                 PROVE  /\ used[c] =< 1 /\ wrong[c] =< MaxAttempts
                        /\ c > new => used[c] = 0 /\ wrong[c] = 0 /\ mail[c] = "none"
      BY <1>1, <1>2 DEF CountsOK
    <3>1. c > new => c > issued
      BY <2>3, Durations DEF Codes
    <3> QED BY <2>1, <3>1 DEF CodesOK, CountsOK
  <2>7. \A c \in Codes : Open(c)' => Open(c) /\ c # new /\ Past(c)
    <3> SUFFICES ASSUME NEW c \in Codes, Open(c)' PROVE Open(c) /\ c # new /\ Past(c)
      OBVIOUS
    <3>1. c =< new /\ mail[c] = "sent" /\ used[c] = 0
      BY <1>1, <1>2 DEF Open
    <3>2. c # new
      BY <2>4, <3>1
    <3>3. c =< issued
      BY <1>2, <2>3, <3>1, <3>2, Durations DEF Codes
    <3>4. Open(c)
      BY <3>1, <3>3 DEF Open
    <3> QED BY <1>1, <2>1, <3>2, <3>4 DEF TurnOK
  <2>8. ASSUME NEW c \in Codes, NEW d \in Codes, c < d, d =< issued', Open(c)'
        PROVE  born'[d] >= born'[c] + Cooldown
    <3>1. Open(c) /\ Past(c) /\ born'[c] = born[c]
      BY <1>5, <2>7, <2>8
    <3>2. CASE d = new
      BY <1>5, <3>1, <3>2 DEF Past
    <3>3. CASE d # new
      <4>1. d =< issued /\ born'[d] = born[d]
        BY <1>1, <1>2, <1>5, <2>3, <2>8, <3>3, Durations DEF Codes
      <4> QED BY <2>1, <2>8, <3>1, <4>1 DEF CodesOK, DistanceOK
    <3> QED BY <3>2, <3>3
  <2>9. \A c \in Codes : Open(c)' => Past(c)'
    BY <1>1, <1>5, <2>7 DEF Past
  <2>10. CodesOK'
    BY <2>5, <2>6, <2>8, <2>9 DEF CodesOK, DistanceOK
  <2> QED BY <2>1, <2>2, <2>10
<1>10. issued' \in Int /\ issued' >= issued /\ \A c \in 1 .. issued : born'[c] = born[c]
  <2>1. \A c \in 1 .. issued : c \in Codes \ {new}
    BY <1>2, Durations DEF IInv, PlainOK, Codes
  <2> QED BY <1>1, <1>5, <2>1 DEF IInv, PlainOK
<1>11. req' = [req EXCEPT ![r] = q]
  BY <1>1, <1>2, <1>3
<1> QED BY <1>4, <1>7, <1>8, <1>9, <1>10, <1>11, StepKeeps

LEMMA StoreCooldownKeeps ==
  ASSUME IInv, NEW r \in Requests, StoreCooldown(r)
  PROVE  IInv'
<1>1. /\ req[r].pc = "stored" /\ resend' = now + Cooldown
      /\ req' = [req EXCEPT ![r].pc = "sending"]
      /\ UNCHANGED <<now, service, otp, issued, gone, born, mail, wrong, used, overlapped>>
  BY DEF StoreCooldown, CooldownFrom, history
<1>2. PICK old \in ReqType : old = req[r] /\ ReadOK(old)
  BY <1>1, Turn
<1>3. PICK q : q = [old EXCEPT !.pc = "sending"]
  OBVIOUS
<1>4. req' = [req EXCEPT ![r] = q]
  BY <1>1, <1>2, <1>3
<1>5. q \in ReqType /\ q.pc = "sending" /\ q.payload = old.payload /\ q.code = old.code
  BY <1>3 DEF ReqType, Pcs
<1>6. PlainOK'
  <2>1. resend' \in 0 .. MaxNow + Cooldown
    BY <1>1, Durations DEF IInv, PlainOK
  <2> QED BY <1>1, <2>1 DEF IInv, PlainOK
<1>7. EntryOK(otp)' /\ ReadOK(q)'
  BY <1>1, <1>2, <1>5 DEF EntryOK, ReadOK, IInv, EntriesOK
<1>8. ASSUME ~ overlapped'
      PROVE  (\A s \in Requests \ {r} : req[s] = Idle) /\ TurnOK(q)' /\ CodesOK'
  <2>1. (\A s \in Requests \ {r} : req[s] = Idle) /\ TurnOK(req[r]) /\ CodesOK
    BY <1>1, <1>8, Turn
  <2>2. \A c \in Codes : c =< issued => resend' >= born[c] + Cooldown
    BY <1>1, Durations DEF IInv, PlainOK
  <2>3. TurnOK(q)'
    <3>1. q.code = issued /\ issued \in Codes
      BY <1>1, <1>2, <1>5, <2>1 DEF TurnOK
    <3>2. resend' >= born[issued] + Cooldown
      BY <2>2, <3>1 DEF IInv, PlainOK
    <3> QED BY <1>1, <1>5, <3>1, <3>2 DEF TurnOK
  <2>4. NewestOK' /\ CountsOK'
    BY <1>1, <2>1 DEF CodesOK, NewestOK, CountsOK
  <2>5. DistanceOK'
    BY <1>1, <2>1, <2>2 DEF CodesOK, DistanceOK, Open
  <2> QED BY <2>1, <2>3, <2>4, <2>5 DEF CodesOK
<1>9. issued' \in Int /\ issued' >= issued /\ \A c \in 1 .. issued : born'[c] = born[c]
  BY <1>1 DEF IInv, PlainOK
<1> QED BY <1>4, <1>5, <1>6, <1>7, <1>8, <1>9, StepKeeps

(* Closing a code, or forgetting what is in the cache, brings nothing      *)
(* nearer.                                                                 *)
LEMMA FewerOpen ==
  ASSUME DistanceOK, UNCHANGED <<now, issued, born, resend>>,
         \A c \in Codes : Open(c)' => Open(c)
  PROVE  DistanceOK'
BY DEF DistanceOK, Past

LEMMA PcFields ==
  ASSUME NEW p \in Pcs
  PROVE  /\ [Idle EXCEPT !.pc = p] \in ReqType
         /\ [Idle EXCEPT !.pc = p].pc = p /\ [Idle EXCEPT !.pc = p].payload = NoOtp
BY IdleOK DEF ReqType

LEMMA DeliverKeeps ==
  ASSUME IInv, NEW r \in Requests, Deliver(r)
  PROVE  IInv'
<1>1. /\ req[r].pc = "sending" /\ mail' = [mail EXCEPT ![req[r].code] = "sent"]
      /\ req' = [req EXCEPT ![r] = Idle]
      /\ UNCHANGED <<now, service, otp, resend, issued, gone, born, wrong, used, overlapped>>
  BY DEF Deliver
<1>2. PICK q : q = Idle
  OBVIOUS
<1>3. q \in ReqType /\ q.pc = "idle" /\ q.payload = NoOtp
  BY <1>2, IdleOK
<1>4. PlainOK'
  BY <1>1 DEF IInv, PlainOK
<1>5. EntryOK(otp)' /\ ReadOK(q)'
  BY <1>1, <1>3 DEF EntryOK, ReadOK, IInv, EntriesOK
<1>6. ASSUME ~ overlapped'
      PROVE  (\A s \in Requests \ {r} : req[s] = Idle) /\ TurnOK(q)' /\ CodesOK'
  <2>1. (\A s \in Requests \ {r} : req[s] = Idle) /\ TurnOK(req[r]) /\ CodesOK
    BY <1>1, <1>6, Turn
  <2>2. /\ req[r].code = issued /\ issued \in Codes
        /\ resend >= born[issued] + Cooldown
    BY <1>1, <2>1 DEF TurnOK
  <2>3. mail'[issued] = "sent" /\ \A c \in Codes \ {issued} : mail'[c] = mail[c]
    BY <1>1, <2>2 DEF IInv, PlainOK
  <2>4. issued \in Int
    BY DEF IInv, PlainOK
  <2>5. NewestOK'
    BY <1>1, <2>1, <2>3 DEF CodesOK, NewestOK
  <2>6. CountsOK'
    <3>1. \A c \in Codes : c > issued => c # issued
      BY <2>4
    <3> QED BY <1>1, <2>1, <2>3, <3>1 DEF CodesOK, CountsOK
  <2>7. \A c \in Codes : Open(c)' => c = issued \/ Open(c)
    BY <1>1, <2>3 DEF Open
  <2>8. ASSUME NEW c \in Codes, NEW d \in Codes, c < d, d =< issued', Open(c)'
        PROVE  born'[d] >= born'[c] + Cooldown
    <3>1. c # issued /\ d =< issued
      BY <1>1, <2>4, <2>8, Durations DEF Codes
    <3>2. Open(c)
      BY <2>7, <2>8, <3>1
    <3> QED BY <1>1, <2>1, <2>8, <3>1, <3>2 DEF CodesOK, DistanceOK
  <2>9. ASSUME NEW c \in Codes, Open(c)' PROVE resend' >= born'[c] + Cooldown \/ Past(c)'
    <3>1. CASE c = issued
      BY <1>1, <2>2, <3>1
    <3>2. CASE c # issued
      BY <1>1, <2>1, <2>7, <2>9, <3>2 DEF CodesOK, DistanceOK, Past
    <3> QED BY <3>1, <3>2
  <2>10. CodesOK'
    BY <2>5, <2>6, <2>8, <2>9 DEF CodesOK, DistanceOK
  <2> QED BY <1>3, <2>1, <2>10 DEF TurnOK
<1>7. issued' \in Int /\ issued' >= issued /\ \A c \in 1 .. issued : born'[c] = born[c]
  BY <1>1 DEF IInv, PlainOK
<1> QED BY <1>1, <1>2, <1>3, <1>4, <1>5, <1>6, <1>7, StepKeeps

LEMMA DeliveryFailsKeeps ==
  ASSUME IInv, NEW r \in Requests, DeliveryFails(r)
  PROVE  IInv'
<1>1. /\ req[r].pc = "sending" /\ mail' = [mail EXCEPT ![req[r].code] = "failed"]
      /\ UNCHANGED <<now, service, resend, issued, gone, born, wrong, used, overlapped>>
  BY DEF DeliveryFails
<1>2. PICK p \in {"failed", "idle"} :
        /\ req' = [req EXCEPT ![r] = [Idle EXCEPT !.pc = p]]
        /\ otp' = IF service = "EventDeletion" THEN NoOtp ELSE otp
  <2>1. CASE service = "EventDeletion"
    BY <2>1 DEF DeliveryFails, forgetOtp
  <2>2. CASE service # "EventDeletion"
    <3>1. Idle = [Idle EXCEPT !.pc = "idle"]
      BY DEF Idle
    <3> QED BY <2>2, <3>1 DEF DeliveryFails
  <2> QED BY <2>1, <2>2
<1>3. PICK q \in ReqType : q = [Idle EXCEPT !.pc = p] /\ q.pc = p /\ q.payload = NoOtp
  BY PcFields DEF Pcs
<1>4. PlainOK'
  <2>1. otp' \in Otp
    BY <1>2, NoOtpOK DEF IInv, PlainOK
  <2> QED BY <1>1, <2>1 DEF IInv, PlainOK
<1>5. EntryOK(otp)' /\ ReadOK(q)'
  BY <1>1, <1>2, <1>3 DEF EntryOK, ReadOK, IInv, EntriesOK
<1>6. ASSUME ~ overlapped'
      PROVE  (\A s \in Requests \ {r} : req[s] = Idle) /\ TurnOK(q)' /\ CodesOK'
  <2>1. (\A s \in Requests \ {r} : req[s] = Idle) /\ TurnOK(req[r]) /\ CodesOK
    BY <1>1, <1>6, Turn
  <2>2. req[r].code = issued /\ issued \in Codes
    BY <1>1, <2>1 DEF TurnOK
  <2>3. mail'[issued] = "failed" /\ \A c \in Codes \ {issued} : mail'[c] = mail[c]
    BY <1>1, <2>2 DEF IInv, PlainOK
  <2>4. NewestOK'
    BY <1>1, <1>2, <2>1 DEF CodesOK, NewestOK
  <2>5. CountsOK'
    <3>1. \A c \in Codes : c > issued => c # issued
      BY DEF IInv, PlainOK
    <3> QED BY <1>1, <2>1, <2>3, <3>1 DEF CodesOK, CountsOK
  <2>6. \A c \in Codes : Open(c)' => c # issued /\ Open(c)
    BY <1>1, <2>3 DEF Open
  <2>7. DistanceOK'
    BY <1>1, <2>1, <2>6, FewerOpen DEF CodesOK
  <2>8. TurnOK(q)'
    BY <1>1, <1>2, <1>3, <2>2, <2>3 DEF TurnOK, Open
  <2> QED BY <2>1, <2>4, <2>5, <2>7, <2>8 DEF CodesOK
<1>7. issued' \in Int /\ issued' >= issued /\ \A c \in 1 .. issued : born'[c] = born[c]
  BY <1>1 DEF IInv, PlainOK
<1> QED BY <1>2, <1>3, <1>4, <1>5, <1>6, <1>7, StepKeeps

-----------------------------------------------------------------------------
(* verify(): what the answers say of the entry that was read.              *)
LEMMA Outcome ==
  ASSUME NEW p \in Otp, NEW guess, now \in Int
  PROVE  /\ outcome(p, guess) = "verified" => p.expires >= now
         /\ outcome(p, guess) = "invalid" => p.attempts + 1 < MaxAttempts
<1>1. p.expires \in Int /\ p.attempts \in Int
  BY DEF Otp
<1> QED BY <1>1 DEF outcome

LEMMA Read ==
  ASSUME IInv, NEW r \in Requests, req[r].pc = "read"
  PROVE  \E p \in Otp :
           /\ p = req[r].payload /\ p # NoOtp /\ p.code \in Codes /\ p.code \in 1 .. issued
           /\ p.expires = born[p.code] + CodeTTL
           /\ ~ overlapped => /\ p = otp /\ p.code = issued /\ used[issued] = 0
                              /\ wrong[issued] = p.attempts
<1>1. /\ req[r] \in ReqType /\ ReadOK(req[r])
      /\ ~ overlapped => TurnOK(req[r]) /\ CodesOK
  BY Turn
<1>2. PICK p \in Otp : p = req[r].payload
  BY <1>1 DEF ReqType
<1>3. p # NoOtp /\ p.code \in 1 .. issued /\ p.expires = born[p.code] + CodeTTL
  BY <1>1, <1>2 DEF ReadOK, EntryOK
<1>4. p.code \in Codes
  BY <1>3, IssuedCodes DEF IInv
<1>5. ~ overlapped => /\ p = otp /\ p.code = issued /\ used[issued] = 0
                      /\ wrong[issued] = p.attempts
  BY <1>1, <1>2, <1>3 DEF TurnOK, CodesOK, NewestOK
<1> QED BY <1>2, <1>3, <1>4, <1>5

LEMMA PutBackOK ==
  ASSUME PlainOK, NEW p \in Otp, p.attempts + 1 < MaxAttempts
  PROVE  /\ PutBack(p) \in Otp /\ PutBack(p).code = p.code
         /\ PutBack(p).expires = p.expires /\ PutBack(p).attempts = p.attempts + 1
<1>1. PICK u : u = IF p.expires > now THEN p.expires ELSE now + 1
  OBVIOUS
<1>2. u \in 0 .. MaxNow + CodeTTL
  <2>1. p.expires \in 0 .. MaxNow + CodeTTL /\ now \in 0 .. MaxNow
    BY DEF Otp, PlainOK
  <2> QED BY <1>1, <2>1, Durations
<1>3. PICK a : a = p.attempts + 1
  OBVIOUS
<1>4. a \in 0 .. MaxAttempts - 1
  BY <1>3, Durations DEF Otp
<1>5. PutBack(p) = [p EXCEPT !.attempts = a, !.until = u]
  BY <1>1, <1>3 DEF PutBack
<1>6. PutBack(p) = [code |-> p.code, attempts |-> a, expires |-> p.expires, until |-> u]
  BY <1>5 DEF Otp
<1> QED BY <1>2, <1>3, <1>4, <1>6 DEF Otp

LEMMA AnswerWrongKeeps ==
  ASSUME IInv, NEW r \in Requests, AnswerWrong(r)
  PROVE  IInv'
<1>1. req[r].pc = "read"
  BY DEF AnswerWrong
<1>2. PICK p \in Otp :
        /\ p = req[r].payload /\ p # NoOtp /\ p.code \in Codes /\ p.code \in 1 .. issued
        /\ p.expires = born[p.code] + CodeTTL
        /\ ~ overlapped => /\ p = otp /\ p.code = issued /\ used[issued] = 0
                           /\ wrong[issued] = p.attempts
  BY <1>1, Read
<1>3. /\ wrong[p.code] < MaxGuesses /\ wrong' = [wrong EXCEPT ![p.code] = @ + 1]
      /\ otp' = IF outcome(p, req[r].code) = "invalid" THEN PutBack(p) ELSE NoOtp
      /\ req' = [req EXCEPT ![r] = Idle]
      /\ UNCHANGED <<now, service, resend, issued, gone, born, mail, used, overlapped>>
  BY <1>2 DEF AnswerWrong
<1>4. \/ otp' = NoOtp
      \/ /\ otp' \in Otp /\ otp'.code = p.code /\ otp'.expires = p.expires
         /\ otp'.attempts = p.attempts + 1
  <2>1. CASE outcome(p, req[r].code) = "invalid"
    <3>1. p.attempts + 1 < MaxAttempts
      BY <2>1, Outcome DEF IInv, PlainOK
    <3> QED BY <1>3, <2>1, <3>1, PutBackOK DEF IInv
  <2>2. CASE outcome(p, req[r].code) # "invalid"
    BY <1>3, <2>2
  <2> QED BY <2>1, <2>2
<1>5. PICK q : q = Idle
  OBVIOUS
<1>6. q \in ReqType /\ q.pc = "idle" /\ q.payload = NoOtp
  BY <1>5, IdleOK
<1>7. PlainOK'
  <2>1. otp' \in Otp
    BY <1>4, NoOtpOK
  <2>2. wrong[p.code] + 1 \in 0 .. MaxGuesses
    BY <1>2, <1>3, Durations DEF IInv, PlainOK
  <2>3. wrong' \in [Codes -> 0 .. MaxGuesses]
    BY <1>3, <2>2 DEF IInv, PlainOK
  <2> QED BY <1>3, <2>1, <2>3 DEF IInv, PlainOK
<1>8. EntryOK(otp)' /\ ReadOK(q)'
  BY <1>2, <1>3, <1>4, <1>6 DEF EntryOK, ReadOK
<1>9. ASSUME ~ overlapped'
      PROVE  (\A s \in Requests \ {r} : req[s] = Idle) /\ TurnOK(q)' /\ CodesOK'
  <2>1. (\A s \in Requests \ {r} : req[s] = Idle) /\ CodesOK
    BY <1>1, <1>3, <1>9, Turn
  <2>2. p = otp /\ p.code = issued /\ used[issued] = 0 /\ wrong[issued] = p.attempts
    BY <1>2, <1>3, <1>9
  <2>3. issued \in Codes /\ p.attempts \in 0 .. MaxAttempts - 1
    BY <1>2, <2>2 DEF Otp
  <2>4. /\ wrong'[issued] = p.attempts + 1
        /\ \A c \in Codes \ {issued} : wrong'[c] = wrong[c]
    BY <1>3, <2>2, <2>3 DEF IInv, PlainOK
  <2>5. NewestOK'
    BY <1>2, <1>3, <1>4, <2>1, <2>2, <2>4 DEF CodesOK, NewestOK
  <2>6. CountsOK'
    <3>1. wrong'[issued] =< MaxAttempts
      BY <2>3, <2>4, Durations
    <3>2. \A c \in Codes : c > issued => c # issued
      BY DEF IInv, PlainOK
    <3> QED BY <1>3, <2>1, <2>4, <3>1, <3>2 DEF CodesOK, CountsOK
  <2>7. DistanceOK'
    BY <1>3, <2>1, FewerOpen DEF CodesOK, Open
  <2> QED BY <1>6, <2>1, <2>5, <2>6, <2>7 DEF CodesOK, TurnOK
<1>10. issued' \in Int /\ issued' >= issued /\ \A c \in 1 .. issued : born'[c] = born[c]
  BY <1>3 DEF IInv, PlainOK
<1> QED BY <1>3, <1>5, <1>6, <1>7, <1>8, <1>9, <1>10, StepKeeps

LEMMA AnswerExpiredKeeps ==
  ASSUME IInv, NEW r \in Requests, AnswerExpired(r)
  PROVE  IInv'
<1>1. /\ req[r].pc = "read" /\ otp' = NoOtp /\ req' = [req EXCEPT ![r] = Idle]
      /\ UNCHANGED <<now, service, resend, issued, gone, born, mail, wrong, used, overlapped>>
  BY DEF AnswerExpired, history
<1>2. PICK q : q = Idle
  OBVIOUS
<1>3. q \in ReqType /\ q.pc = "idle" /\ q.payload = NoOtp
  BY <1>2, IdleOK
<1>4. PlainOK'
  BY <1>1, NoOtpOK DEF IInv, PlainOK
<1>5. EntryOK(otp)' /\ ReadOK(q)'
  BY <1>1, <1>3 DEF EntryOK, ReadOK
<1>6. ASSUME ~ overlapped'
      PROVE  (\A s \in Requests \ {r} : req[s] = Idle) /\ TurnOK(q)' /\ CodesOK'
  <2>1. (\A s \in Requests \ {r} : req[s] = Idle) /\ CodesOK
    BY <1>1, <1>6, Turn
  <2>2. NewestOK' /\ CountsOK'
    BY <1>1, <2>1 DEF CodesOK, NewestOK, CountsOK
  <2>3. DistanceOK'
    BY <1>1, <2>1, FewerOpen DEF CodesOK, Open
  <2> QED BY <1>3, <2>1, <2>2, <2>3 DEF CodesOK, TurnOK
<1>7. issued' \in Int /\ issued' >= issued /\ \A c \in 1 .. issued : born'[c] = born[c]
  BY <1>1 DEF IInv, PlainOK
<1> QED BY <1>1, <1>2, <1>3, <1>4, <1>5, <1>6, <1>7, StepKeeps

LEMMA AnswerRightKeeps ==
  ASSUME IInv, NEW r \in Requests, AnswerRight(r)
  PROVE  IInv'
<1>1. req[r].pc = "read"
  BY DEF AnswerRight
<1>2. PICK p \in Otp :
        /\ p = req[r].payload /\ p # NoOtp /\ p.code \in Codes /\ p.code \in 1 .. issued
        /\ p.expires = born[p.code] + CodeTTL
        /\ ~ overlapped => /\ p = otp /\ p.code = issued /\ used[issued] = 0
                           /\ wrong[issued] = p.attempts
  BY <1>1, Read
<1>3. /\ used[p.code] < MaxGuesses /\ used' = [used EXCEPT ![p.code] = @ + 1]
      /\ otp' = NoOtp /\ req' = [req EXCEPT ![r] = [Idle EXCEPT !.pc = "verified"]]
      /\ UNCHANGED <<now, service, resend, issued, gone, born, mail, wrong, overlapped>>
  BY <1>2 DEF AnswerRight, forgetOtp
<1>4. PICK q \in ReqType :
        q = [Idle EXCEPT !.pc = "verified"] /\ q.pc = "verified" /\ q.payload = NoOtp
  BY PcFields DEF Pcs
<1>5. PlainOK'
  <2>1. used[p.code] + 1 \in 0 .. MaxGuesses
    BY <1>2, <1>3, Durations DEF IInv, PlainOK
  <2>2. used' \in [Codes -> 0 .. MaxGuesses]
    BY <1>3, <2>1 DEF IInv, PlainOK
  <2> QED BY <1>3, <2>2, NoOtpOK DEF IInv, PlainOK
<1>6. EntryOK(otp)' /\ ReadOK(q)'
  BY <1>3, <1>4 DEF EntryOK, ReadOK
<1>7. ASSUME ~ overlapped'
      PROVE  (\A s \in Requests \ {r} : req[s] = Idle) /\ TurnOK(q)' /\ CodesOK'
  <2>1. (\A s \in Requests \ {r} : req[s] = Idle) /\ CodesOK
    BY <1>1, <1>3, <1>7, Turn
  <2>2. p.code = issued /\ used[issued] = 0 /\ issued \in Codes
    BY <1>2, <1>3, <1>7
  <2>3. used'[issued] = 1 /\ \A c \in Codes \ {issued} : used'[c] = used[c]
    BY <1>3, <2>2 DEF IInv, PlainOK
  <2>4. NewestOK'
    BY <1>3 DEF NewestOK
  <2>5. CountsOK'
    <3>1. \A c \in Codes : c > issued => c # issued
      BY DEF IInv, PlainOK
    <3> QED BY <1>3, <2>1, <2>3, <3>1 DEF CodesOK, CountsOK
  <2>6. \A c \in Codes : Open(c)' => Open(c)
    BY <1>3, <2>3 DEF Open
  <2>7. DistanceOK'
    BY <1>3, <2>1, <2>6, FewerOpen DEF CodesOK
  <2>8. TurnOK(q)'
    BY <1>3, <1>4, <2>2, <2>3 DEF TurnOK, Open
  <2> QED BY <2>1, <2>4, <2>5, <2>7, <2>8 DEF CodesOK
<1>8. issued' \in Int /\ issued' >= issued /\ \A c \in 1 .. issued : born'[c] = born[c]
  BY <1>3 DEF IInv, PlainOK
<1> QED BY <1>3, <1>4, <1>5, <1>6, <1>7, <1>8, StepKeeps

(* The cooldown is forgotten only after a code that is used or was not     *)
(* mailed: every open code is older, and the distance to it is kept.       *)
LEMMA ForgetCooldownKeeps ==
  ASSUME IInv, NEW r \in Requests, ForgetCooldown(r)
  PROVE  IInv'
<1>1. /\ req[r].pc \in {"verified", "failed"} /\ resend' = 0 /\ gone' \in {gone, TRUE}
      /\ req' = [req EXCEPT ![r] = Idle]
      /\ UNCHANGED <<now, service, otp, issued, born, mail, wrong, used, overlapped>>
  BY DEF ForgetCooldown, history
<1>2. PICK q : q = Idle
  OBVIOUS
<1>3. q \in ReqType /\ q.pc = "idle" /\ q.payload = NoOtp
  BY <1>2, IdleOK
<1>4. PlainOK'
  <2>1. resend' \in 0 .. MaxNow + Cooldown
    BY <1>1, Durations
  <2>2. gone' \in BOOLEAN
    BY <1>1 DEF IInv, PlainOK
  <2> QED BY <1>1, <2>1, <2>2 DEF IInv, PlainOK
<1>5. EntryOK(otp)' /\ ReadOK(q)'
  BY <1>1, <1>3 DEF EntryOK, ReadOK, IInv, EntriesOK
<1>6. ASSUME ~ overlapped'
      PROVE  (\A s \in Requests \ {r} : req[s] = Idle) /\ TurnOK(q)' /\ CodesOK'
  <2>1. (\A s \in Requests \ {r} : req[s] = Idle) /\ TurnOK(req[r]) /\ CodesOK
    BY <1>1, <1>6, Turn
  <2>2. issued \in Codes /\ ~ Open(issued)
    BY <1>1, <2>1 DEF TurnOK
  <2>3. NewestOK' /\ CountsOK'
    BY <1>1, <2>1 DEF CodesOK, NewestOK, CountsOK
  <2>4. ASSUME NEW c \in Codes, Open(c) PROVE Past(c)
    <3>1. c < issued
      BY <2>2, <2>4, Durations DEF Open, Codes
    <3>2. born[issued] >= born[c] + Cooldown
      BY <2>1, <2>2, <2>4, <3>1, Durations DEF CodesOK, DistanceOK, Codes
    <3>3. born[issued] =< now
      BY <2>2, Durations DEF IInv, PlainOK, Codes
    <3>4. born[issued] \in Int /\ born[c] \in Int /\ now \in Int /\ Cooldown \in Int
      BY <2>2, Durations DEF IInv, PlainOK
    <3> QED BY <3>2, <3>3, <3>4 DEF Past
  <2>5. DistanceOK'
    BY <1>1, <2>1, <2>4 DEF CodesOK, DistanceOK, Open, Past
  <2> QED BY <1>3, <2>1, <2>3, <2>5 DEF CodesOK, TurnOK
<1>7. issued' \in Int /\ issued' >= issued /\ \A c \in 1 .. issued : born'[c] = born[c]
  BY <1>1 DEF IInv, PlainOK
<1> QED BY <1>1, <1>2, <1>3, <1>4, <1>5, <1>6, <1>7, StepKeeps

-----------------------------------------------------------------------------
LEMMA InitIInv == Init => IInv
<1> SUFFICES ASSUME Init PROVE IInv
  OBVIOUS
<1>1. /\ now = 0 /\ otp = NoOtp /\ resend = 0 /\ issued = 0 /\ gone = FALSE
      /\ service \in Services /\ overlapped = FALSE
  BY DEF Init
<1>2. \A c \in Codes : born[c] = 0 /\ mail[c] = "none" /\ wrong[c] = 0 /\ used[c] = 0
  BY DEF Init
<1>3. PlainOK
  <2>1. /\ born \in [Codes -> 0 .. MaxNow] /\ mail \in [Codes -> {"none", "sent", "failed"}]
        /\ wrong \in [Codes -> 0 .. MaxGuesses] /\ used \in [Codes -> 0 .. MaxGuesses]
    BY Durations DEF Init
  <2>2. /\ now \in 0 .. MaxNow /\ resend \in 0 .. MaxNow + Cooldown
        /\ issued \in 0 .. MaxCodes /\ otp \in Otp
    BY <1>1, Durations, NoOtpOK
  <2>3. \A c \in Codes : c =< issued => born[c] =< now
    BY <1>1, <1>2
  <2>4. gone \in BOOLEAN /\ overlapped \in BOOLEAN
    BY <1>1
  <2> QED BY <1>1, <2>1, <2>2, <2>3, <2>4 DEF PlainOK
<1>4. \A r \in Requests : req[r] = Idle
  BY DEF Init
<1>5. EntriesOK
  <2>1. req \in [Requests -> ReqType]
    BY IdleOK DEF Init
  <2> QED BY <1>1, <1>4, <2>1, IdleOK DEF EntriesOK, EntryOK, ReadOK
<1>6. Alone
  <2>1. CountsOK
    BY <1>2, Durations DEF CountsOK
  <2>2. \A c \in Codes : ~ Open(c)
    BY <1>2 DEF Open
  <2>3. NewestOK /\ DistanceOK
    BY <1>1, <2>2 DEF NewestOK, DistanceOK
  <2>4. \A r \in Requests : TurnOK(req[r])
    BY <1>4, IdleOK DEF TurnOK
  <2> QED BY <1>4, <2>1, <2>3, <2>4 DEF Alone, CodesOK
<1> QED BY <1>3, <1>5, <1>6 DEF IInv, AloneInv

LEMMA StepIInv == IInv /\ [Next]_vars => IInv'
<1> SUFFICES ASSUME IInv, [Next]_vars PROVE IInv'
  OBVIOUS
<1>1. CASE UNCHANGED vars
  <2>1. UNCHANGED <<now, service, otp, resend, issued, gone, req, born, mail, wrong, used,
                    history, overlapped>>
    BY <1>1 DEF vars, history
  <2>2. PlainOK'
    BY <2>1, PlainStays DEF IInv, PlainOK
  <2>3. EntriesOK'
    BY <2>1 DEF IInv, EntriesOK, ReadOK, EntryOK
  <2>4. AloneInv'
    <3>1. CodesOK => CodesOK'
      BY <2>1, CodesStay
    <3>2. \A r \in Requests : TurnOK(req[r]) => TurnOK(req[r])'
      BY <2>1 DEF TurnOK, Open, Past
    <3> QED BY <2>1, <3>1, <3>2 DEF IInv, AloneInv, Alone
  <2> QED BY <2>2, <2>3, <2>4 DEF IInv
<1>2. ASSUME NEW r \in Requests, \/ MayIssue(r) \/ Store(r) \/ StoreCooldown(r)
                                 \/ Deliver(r) \/ DeliveryFails(r)
      PROVE  IInv'
  BY <1>2, MayIssueKeeps, StoreKeeps, StoreCooldownKeeps, DeliverKeeps, DeliveryFailsKeeps
<1>3. ASSUME NEW r \in Requests, \/ Get(r) \/ AnswerWrong(r) \/ AnswerExpired(r)
                                 \/ AnswerRight(r) \/ ForgetCooldown(r)
      PROVE  IInv'
  BY <1>3, GetKeeps, AnswerWrongKeeps, AnswerExpiredKeeps, AnswerRightKeeps,
     ForgetCooldownKeeps
<1> QED BY <1>1, <1>2, <1>3, TickKeeps DEF Next

LEMMA SpecIInv == Spec => []IInv
BY InitIInv, StepIInv, PTL DEF Spec

LEMMA ConsistentFromIInv == IInv => CodeConsistent
<1> SUFFICES ASSUME IInv PROVE CodeConsistent
  OBVIOUS
<1>1. TypeOK
  BY DEF IInv, PlainOK, EntriesOK, ReqType, Pcs, TypeOK
<1>2. ASSUME ~ overlapped
      PROVE  /\ \A c \in Codes : used[c] =< 1 /\ wrong[c] =< MaxAttempts
             /\ now < otp.until => otp.code = issued
             /\ service = "EventDeletion" =>
                  \A c \in Codes : mail[c] = "failed" => otp.code # c
             /\ Spaced
  <2>1. CodesOK
    BY <1>2 DEF IInv, AloneInv, Alone
  <2>2. now < otp.until => otp.code = issued
    BY <2>1, UntilNotEmpty DEF IInv, CodesOK, NewestOK
  <2>3. ASSUME service = "EventDeletion", NEW c \in Codes, mail[c] = "failed"
        PROVE  otp.code # c
    <3>1. CASE otp = NoOtp
      BY <3>1, NoOtpOK DEF Codes, NoCode
    <3>2. CASE otp # NoOtp
      BY <2>1, <2>3, <3>2 DEF CodesOK, NewestOK
    <3> QED BY <3>1, <3>2
  <2>4. Spaced
    <3> SUFFICES ASSUME NEW c \in Codes, NEW d \in Codes, c < d, mail[c] = "sent",
                        mail[d] = "sent", used[c] = 0
                 PROVE  born[d] >= born[c] + Cooldown
      BY DEF Spaced
    <3>1. c \in Int /\ d \in Int /\ issued \in Int
      BY Durations DEF Codes, IInv, PlainOK
    <3>2. d =< issued
      BY <2>1, <3>1 DEF CodesOK, CountsOK
    <3>3. Open(c)
      BY <3>1, <3>2 DEF Open
    <3> QED BY <2>1, <3>2, <3>3 DEF CodesOK, DistanceOK
  <2> QED BY <2>1, <2>2, <2>3, <2>4 DEF CodesOK, CountsOK
<1> QED
  BY <1>1, <1>2 DEF CodeConsistent, SingleUse, GuessesBounded, NewestCodeCounts,
                    UndeliveredUnusable, MailsSpaced

(* Until two requests of a user overlap, the code in the cache is the last *)
(* one issued, is used once, is guessed at MAX_ATTEMPTS times and never    *)
(* outlives a mail that failed, and mails keep their distance.             *)
THEOREM CodeStaysConsistent == Spec => []CodeConsistent
BY SpecIInv, ConsistentFromIInv, PTL

-----------------------------------------------------------------------------
NotLate(c) == used'[c] > used[c] => now =< born[c] + CodeTTL

LEMMA StepNotLate == IInv /\ [Next]_vars => \A c \in Codes : NotLate(c)
<1> SUFFICES ASSUME IInv, [Next]_vars, NEW c \in Codes PROVE NotLate(c)
  OBVIOUS
<1>1. used[c] \in Int
  BY DEF IInv, PlainOK
<1>2. CASE UNCHANGED used
  BY <1>1, <1>2 DEF NotLate
<1>3. ASSUME NEW r \in Requests, AnswerRight(r) PROVE NotLate(c)
  <2>1. req[r].pc = "read"
    BY <1>3 DEF AnswerRight
  <2>2. PICK p \in Otp : /\ p = req[r].payload /\ p.code \in Codes
                         /\ p.expires = born[p.code] + CodeTTL
    BY <2>1, Read
  <2>3. /\ outcome(p, req[r].code) = "verified"
        /\ used' = [used EXCEPT ![p.code] = @ + 1]
    BY <1>3, <2>2 DEF AnswerRight
  <2>4. p.expires >= now
    BY <2>3, Outcome DEF IInv, PlainOK
  <2>5. CASE c = p.code
    <3>1. now \in Int /\ born[c] \in Int /\ CodeTTL \in Int
      BY Durations DEF IInv, PlainOK
    <3> QED BY <2>2, <2>4, <2>5, <3>1 DEF NotLate
  <2>6. CASE c # p.code
    <3>1. used'[c] = used[c]
      BY <2>3, <2>6 DEF IInv, PlainOK
    <3> QED BY <1>1, <3>1 DEF NotLate
  <2> QED BY <2>5, <2>6
<1>4. ASSUME NEW r \in Requests,
             \/ MayIssue(r) \/ Store(r) \/ StoreCooldown(r) \/ Deliver(r) \/ DeliveryFails(r)
             \/ Get(r) \/ AnswerWrong(r) \/ AnswerExpired(r) \/ ForgetCooldown(r)
      PROVE  UNCHANGED used
  BY <1>4 DEF MayIssue, Store, StoreCooldown, Deliver, DeliveryFails, Get, AnswerWrong,
              AnswerExpired, ForgetCooldown, history
<1>5. Tick \/ UNCHANGED vars => UNCHANGED used
  BY DEF Tick, vars, history
<1> QED BY <1>2, <1>3, <1>4, <1>5 DEF Next

(* However requests overlap, no code is accepted after CODE_TTL_SECONDS.   *)
THEOREM NeverLate == Spec => NoLateVerify
<1>1. IInv /\ [Next]_vars => [\A c \in Codes : NotLate(c)]_vars
  BY StepNotLate
<1>2. Spec => [][\A c \in Codes : NotLate(c)]_vars
  BY <1>1, SpecIInv, PTL DEF Spec
<1> QED BY <1>2 DEF NotLate, NoLateVerify
=============================================================================
