------------------------- MODULE PaywallWidgetProofs -------------------------
(***************************************************************************)
(* Proofs about PaywallWidget, for any number of calls, invoices and       *)
(* restarts of the proxy and any countdown.                                *)
(***************************************************************************)
EXTENDS PaywallWidget, TLAPS

-----------------------------------------------------------------------------
(* What a step does to its call *)

\* The call of a step becomes a call, and no other call is touched.
Keeps(c) ==
    /\ call' \in [Calls -> Call]
    /\ \A d \in Calls : d # c => call'[d] = call[d]

LEMMA Becomes ==
    ASSUME TypeOK, NEW c \in Calls, NEW y \in Call, call' = [call EXCEPT ![c] = y]
    PROVE  Keeps(c) /\ call'[c] = y
  BY DEF TypeOK, Keeps

\* The values a step gives to the fields.
LEMMA Values ==
    /\ {"idle", "fetching", "waiting", "retrying", "leaving", "settled"} \subseteq Stages
    /\ {"awaiting", "paying", "verifying", "granted", "failed", "expired"} \subseteq Screens
    /\ {"ok", "refused", "error", "overflow"} \subseteq Results
    /\ {"unsent", "right", "wrong"} \subseteq Proofs
    /\ 0 \in 0..Expiry /\ Expiry \in 0..Expiry
  BY BoundsAssumption DEF Stages, Screens, Results, Proofs

LEMMA SettleMove ==
    ASSUME TypeOK, NEW c \in Calls, NEW result \in Results, Settle(c, result)
    PROVE  /\ Keeps(c)
           /\ call'[c].stage = "settled" /\ call'[c].result = result
           /\ call'[c].screen = None /\ call'[c].left = 0
           /\ call'[c].enrolled = call[c].enrolled
<1> DEFINE y == [call[c] EXCEPT !.stage = "settled", !.result = result, !.screen = None, !.left = 0]
<1>1. ASSUME NEW x \in Call, NEW a \in Stages, NEW r \in Results, NEW s \in Screens \cup {None},
             NEW n \in 0..Expiry
      PROVE  [x EXCEPT !.stage = a, !.result = r, !.screen = s, !.left = n] \in Call
  BY DEF Call
<1>2. call[c] \in Call
  BY DEF TypeOK
<1>3. y \in Call
  BY <1>1, <1>2, Values
<1>4. call' = [call EXCEPT ![c] = y]
  BY DEF TypeOK, Settle
<1>5. /\ y.stage = "settled" /\ y.result = result /\ y.screen = None /\ y.left = 0
      /\ y.enrolled = call[c].enrolled
  BY <1>2 DEF Call
<1> HIDE DEF y
<1> QED
  BY <1>3, <1>4, <1>5, Becomes

LEMMA RunEngineMove ==
    ASSUME TypeOK, NEW c \in Calls, RunEngine(c)
    PROVE  /\ Keeps(c)
           /\ call'[c].enrolled = call[c].enrolled /\ call'[c].screen = None
           /\ \/ call'[c].stage = "settled" /\ call'[c].result = "overflow"
              \/ /\ call'[c].stage = "fetching" /\ call'[c].result = call[c].result
                 /\ call'[c].cred = stored
<1> DEFINE y == [call[c] EXCEPT !.stage = "fetching", !.cred = stored, !.invoice = None,
                                !.proof = "unsent", !.screen = None, !.left = 0]
<1>1. ASSUME NEW x \in Call, NEW a \in Stages, NEW k \in Boots \cup {None},
             NEW i \in Invoices \cup {None}, NEW p \in Proofs, NEW s \in Screens \cup {None},
             NEW n \in 0..Expiry
      PROVE  [x EXCEPT !.stage = a, !.cred = k, !.invoice = i, !.proof = p, !.screen = s,
                       !.left = n] \in Call
  BY DEF Call
<1>2. call[c] \in Call /\ stored \in Boots \cup {None}
  BY DEF TypeOK
<1>3. y \in Call
  <2>1. /\ "fetching" \in Stages /\ 0 \in 0..Expiry /\ "unsent" \in Proofs
        /\ None \in Invoices \cup {None} /\ None \in Screens \cup {None}
    BY Values
  <2> QED
    BY <1>1, <1>2, <2>1
<1>5. /\ y.stage = "fetching" /\ y.cred = stored /\ y.screen = None
      /\ y.result = call[c].result /\ y.enrolled = call[c].enrolled
  BY <1>2 DEF Call
<1>6. CASE installed
  BY <1>6, SettleMove, Values DEF RunEngine
<1>7. CASE ~installed
  <2>1. call' = [call EXCEPT ![c] = y]
    BY <1>7 DEF TypeOK, RunEngine
  <2> HIDE DEF y
  <2> QED
    BY <1>3, <1>5, <2>1, Becomes
<1> QED
  BY <1>6, <1>7

LEMMA PresentMove ==
    ASSUME TypeOK, NEW c \in Calls, NEW proof \in BOOLEAN, Present(c, proof)
    PROVE  /\ Keeps(c)
           /\ call'[c].enrolled = call[c].enrolled
           /\ \/ /\ installed
                 /\ call'[c].stage = "settled" /\ call'[c].result = "overflow"
                 /\ call'[c].screen = None
              \/ /\ ~installed
                 /\ call'[c].stage = "retrying" /\ call'[c].result = call[c].result
                 /\ call'[c].screen = "verifying" /\ call'[c].invoice = call[c].invoice
                 /\ call'[c].proof = (IF proof THEN "right" ELSE "wrong")
<1> DEFINE p0 == IF proof THEN "right" ELSE "wrong"
           y == [call[c] EXCEPT !.stage = "retrying", !.proof = p0, !.screen = "verifying"]
<1>1. ASSUME NEW x \in Call, NEW a \in Stages, NEW p \in Proofs, NEW s \in Screens \cup {None}
      PROVE  [x EXCEPT !.stage = a, !.proof = p, !.screen = s] \in Call
  BY DEF Call
<1>2. call[c] \in Call /\ p0 \in Proofs
  BY Values DEF TypeOK
<1>3. y \in Call
  <2> HIDE DEF p0
  <2> QED
    BY <1>1, <1>2, Values
<1>5. /\ y.stage = "retrying" /\ y.screen = "verifying" /\ y.invoice = call[c].invoice
      /\ y.proof = p0
      /\ y.result = call[c].result /\ y.enrolled = call[c].enrolled
  BY <1>2 DEF Call
<1>6. CASE installed
  BY <1>6, SettleMove, Values DEF Present
<1>7. CASE ~installed
  <2>1. call' = [call EXCEPT ![c] = y]
    BY <1>7 DEF TypeOK, Present
  <2> HIDE DEF y
  <2> QED
    BY <1>3, <1>5, <1>7, <2>1, Becomes
<1> QED
  BY <1>6, <1>7

\* A modal that shows something else, or nothing, with its call where it was.
LEMMA ScreenMove ==
    ASSUME TypeOK, NEW c \in Calls, NEW s \in Screens \cup {None}, NEW n \in 0..Expiry,
           \/ call' = [call EXCEPT ![c].screen = s]
           \/ call' = [call EXCEPT ![c].screen = s, ![c].left = n]
           \/ call' = [call EXCEPT ![c].left = n, ![c].screen = s]
    PROVE  /\ Keeps(c)
           /\ call'[c].screen = s
           /\ call'[c].stage = call[c].stage /\ call'[c].result = call[c].result
           /\ call'[c].invoice = call[c].invoice /\ call'[c].enrolled = call[c].enrolled
           /\ call'[c].cred = call[c].cred /\ call'[c].proof = call[c].proof
<1>1. call[c] \in Call
  BY DEF TypeOK
<1>2. ASSUME NEW y, \/ y = [call[c] EXCEPT !.screen = s]
                    \/ y = [call[c] EXCEPT !.screen = s, !.left = n]
                    \/ y = [call[c] EXCEPT !.left = n, !.screen = s],
             call' = [call EXCEPT ![c] = y]
      PROVE  /\ Keeps(c)
             /\ call'[c].screen = s
             /\ call'[c].stage = call[c].stage /\ call'[c].result = call[c].result
             /\ call'[c].invoice = call[c].invoice /\ call'[c].enrolled = call[c].enrolled
             /\ call'[c].cred = call[c].cred /\ call'[c].proof = call[c].proof
  <2>1. y \in Call
    BY <1>1, <1>2 DEF Call
  <2>2. /\ y.screen = s /\ y.stage = call[c].stage /\ y.result = call[c].result
        /\ y.invoice = call[c].invoice /\ y.enrolled = call[c].enrolled /\ y.cred = call[c].cred
        /\ y.proof = call[c].proof
    BY <1>1, <1>2 DEF Call
  <2> QED
    BY <1>2, <2>1, <2>2, Becomes
<1>3. \/ call' = [call EXCEPT ![c] = [call[c] EXCEPT !.screen = s]]
      \/ call' = [call EXCEPT ![c] = [call[c] EXCEPT !.screen = s, !.left = n]]
      \/ call' = [call EXCEPT ![c] = [call[c] EXCEPT !.left = n, !.screen = s]]
  BY DEF TypeOK
<1> QED
  BY <1>2, <1>3

LEMMA TickMove ==
    ASSUME TypeOK, NEW c \in Calls, call[c].left > 1, call' = [call EXCEPT ![c].left = @ - 1]
    PROVE  /\ Keeps(c)
           /\ call'[c].screen = call[c].screen
           /\ call'[c].stage = call[c].stage /\ call'[c].result = call[c].result
           /\ call'[c].invoice = call[c].invoice /\ call'[c].enrolled = call[c].enrolled
           /\ call'[c].cred = call[c].cred /\ call'[c].proof = call[c].proof
<1> DEFINE y == [call[c] EXCEPT !.left = call[c].left - 1]
<1>1. call[c] \in Call
  BY DEF TypeOK
<1>2. call[c].left - 1 \in 0..Expiry
  BY <1>1, BoundsAssumption DEF Call
<1>3. y \in Call
  BY <1>1, <1>2 DEF Call
<1>4. /\ y.screen = call[c].screen /\ y.stage = call[c].stage /\ y.result = call[c].result
      /\ y.invoice = call[c].invoice /\ y.enrolled = call[c].enrolled /\ y.cred = call[c].cred
      /\ y.proof = call[c].proof
  BY <1>1 DEF Call
<1>5. call' = [call EXCEPT ![c] = y]
  BY DEF TypeOK
<1> HIDE DEF y
<1> QED
  BY <1>3, <1>4, <1>5, Becomes

\* A challenge: its modal, and the invoice it made for this call.
LEMMA ChallengeMove ==
    ASSUME TypeOK, NEW c \in Calls, Challenge(c)
    PROVE  /\ Keeps(c)
           /\ call'[c].stage = "waiting" /\ call'[c].screen = "awaiting"
           /\ call'[c].result = call[c].result /\ call'[c].enrolled = call[c].enrolled
           /\ \E i \in Invoices :
                /\ call'[c].invoice = i
                /\ invoice[i] = None /\ invoice' \in [Invoices -> Invoice \cup {None}]
                /\ invoice'[i] \in Invoice
                /\ invoice'[i].for = c /\ ~invoice'[i].presented
                /\ invoice'[i].type = "enrollment" => call[c].cred = None
                /\ invoice'[i].type \in {"toll", "enrollment"}
                /\ \A j \in Invoices : j # i => invoice'[j] = invoice[j]
<1>1. PICK i \in Invoices, type \in {"toll", "enrollment"} :
        /\ invoice[i] = None
        /\ type = "enrollment" => call[c].cred = None
        /\ invoice' = [invoice EXCEPT ![i] =
                [for |-> c, type |-> type, boot |-> boot, wallet |-> FALSE, paid |-> FALSE,
                 presented |-> FALSE]]
        /\ call' = [call EXCEPT ![c].stage = "waiting", ![c].invoice = i,
                                ![c].screen = "awaiting", ![c].left = Expiry]
  BY DEF Challenge
<1> DEFINE y == [call[c] EXCEPT !.stage = "waiting", !.invoice = i, !.screen = "awaiting",
                                !.left = Expiry]
           v == [for |-> c, type |-> type, boot |-> boot, wallet |-> FALSE, paid |-> FALSE,
                 presented |-> FALSE]
<1>2. ASSUME NEW x \in Call, NEW a \in Stages, NEW s \in Screens \cup {None}, NEW n \in 0..Expiry
      PROVE  [x EXCEPT !.stage = a, !.invoice = i, !.screen = s, !.left = n] \in Call
  BY DEF Call
<1>3. call[c] \in Call
  BY DEF TypeOK
<1>4. y \in Call
  BY <1>2, <1>3, Values
<1>5. /\ y.stage = "waiting" /\ y.screen = "awaiting" /\ y.invoice = i
      /\ y.result = call[c].result /\ y.enrolled = call[c].enrolled
  BY <1>3 DEF Call
<1>6. call' = [call EXCEPT ![c] = y]
  BY <1>1 DEF TypeOK
<1>7. Keeps(c) /\ call'[c] = y
  <2> HIDE DEF y
  <2> QED
    BY <1>4, <1>6, Becomes
<1>8. v \in Invoice /\ v.for = c /\ ~v.presented /\ v.type = type
  BY DEF TypeOK, Invoice
<1>9. /\ invoice' \in [Invoices -> Invoice \cup {None}] /\ invoice'[i] = v
      /\ \A j \in Invoices : j # i => invoice'[j] = invoice[j]
  <2>1. invoice' = [invoice EXCEPT ![i] = v] /\ invoice \in [Invoices -> Invoice \cup {None}]
    BY <1>1 DEF TypeOK
  <2> HIDE DEF v
  <2> QED
    BY <1>8, <2>1
<1>10. /\ call'[c].stage = "waiting" /\ call'[c].screen = "awaiting" /\ call'[c].invoice = i
       /\ call'[c].result = call[c].result /\ call'[c].enrolled = call[c].enrolled
  <2> HIDE DEF y
  <2> QED
    BY <1>5, <1>7
<1>11. /\ invoice'[i] \in Invoice /\ invoice'[i].for = c /\ ~invoice'[i].presented
       /\ invoice'[i].type = type
  <2> HIDE DEF v
  <2> QED
    BY <1>8, <1>9
<1> HIDE DEF y, v
<1> QED
  BY <1>1, <1>7, <1>9, <1>10, <1>11

LEMMA EnrollsMove ==
    ASSUME TypeOK, NEW c \in Calls, RetryEnrolls(c)
    PROVE  /\ Keeps(c)
           /\ call'[c].stage = "leaving" /\ call'[c].screen = Shows(c, "granted")
           /\ call'[c].result = call[c].result /\ call'[c].invoice = call[c].invoice
           /\ \/ stored' = boot /\ call'[c].enrolled = boot
              \/ stored' = stored /\ call'[c].enrolled = call[c].enrolled
<1> DEFINE y == [call[c] EXCEPT !.stage = "leaving", !.screen = Shows(c, "granted"),
                                !.enrolled = boot]
           z == [call[c] EXCEPT !.stage = "leaving", !.screen = Shows(c, "granted")]
<1>1. ASSUME NEW x \in Call, NEW a \in Stages, NEW s \in Screens \cup {None}, NEW b \in Boots
      PROVE  [x EXCEPT !.stage = a, !.screen = s, !.enrolled = b] \in Call
  BY DEF Call
<1>2. call[c] \in Call /\ boot \in Boots /\ Shows(c, "granted") \in Screens \cup {None}
  BY Values DEF TypeOK, Shows
<1>3. y \in Call
  BY <1>1, <1>2, Values
<1>4. z \in Call
  <2>1. ASSUME NEW x \in Call, NEW a \in Stages, NEW s \in Screens \cup {None}
        PROVE  [x EXCEPT !.stage = a, !.screen = s] \in Call
    BY DEF Call
  <2> QED
    BY <1>2, <2>1, Values
<1>5. /\ y.stage = "leaving" /\ y.screen = Shows(c, "granted") /\ y.enrolled = boot
      /\ y.result = call[c].result /\ y.invoice = call[c].invoice
  BY <1>2 DEF Call
<1>6. /\ z.stage = "leaving" /\ z.screen = Shows(c, "granted") /\ z.enrolled = call[c].enrolled
      /\ z.result = call[c].result /\ z.invoice = call[c].invoice
  BY <1>2 DEF Call
<1>7. \/ stored' = boot /\ call' = [call EXCEPT ![c] = y]
      \/ stored' = stored /\ call' = [call EXCEPT ![c] = z]
  BY DEF TypeOK, RetryEnrolls
<1> HIDE DEF y, z
<1>8. CASE stored' = boot /\ call' = [call EXCEPT ![c] = y]
  BY <1>3, <1>5, <1>8, Becomes
<1>9. CASE stored' = stored /\ call' = [call EXCEPT ![c] = z]
  BY <1>4, <1>6, <1>9, Becomes
<1> QED
  BY <1>7, <1>8, <1>9

LEMMA ForwardedMove ==
    ASSUME TypeOK, NEW c \in Calls, RetryForwarded(c)
    PROVE  /\ Keeps(c)
           /\ call'[c].enrolled = call[c].enrolled
           /\ \/ /\ call'[c].stage = "leaving" /\ call'[c].screen = Shows(c, "granted")
                 /\ call'[c].result = call[c].result /\ call'[c].invoice = call[c].invoice
              \/ /\ call'[c].stage = "settled" /\ call'[c].result = "error"
                 /\ call'[c].screen = None
<1> DEFINE y == [call[c] EXCEPT !.stage = "leaving", !.screen = Shows(c, "granted")]
<1>1. ASSUME NEW x \in Call, NEW a \in Stages, NEW s \in Screens \cup {None}
      PROVE  [x EXCEPT !.stage = a, !.screen = s] \in Call
  BY DEF Call
<1>2. call[c] \in Call /\ Shows(c, "granted") \in Screens \cup {None}
  BY Values DEF TypeOK, Shows
<1>3. y \in Call
  BY <1>1, <1>2, Values
<1>4. /\ y.stage = "leaving" /\ y.screen = Shows(c, "granted") /\ y.enrolled = call[c].enrolled
      /\ y.result = call[c].result /\ y.invoice = call[c].invoice
  BY <1>2 DEF Call
<1>5. CASE Settle(c, "error")
  BY <1>5, SettleMove, Values
<1>6. CASE ~Settle(c, "error")
  <2>1. call' = [call EXCEPT ![c] = y]
    BY <1>6 DEF TypeOK, RetryForwarded
  <2> HIDE DEF y
  <2> QED
    BY <1>3, <1>4, <2>1, Becomes
<1> QED
  BY <1>5, <1>6

LEMMA FailsMove ==
    ASSUME TypeOK, NEW c \in Calls, RetryFails(c)
    PROVE  /\ Keeps(c)
           /\ call'[c].enrolled = call[c].enrolled /\ call'[c].stage = "settled"
           /\ \/ /\ call'[c].screen = Shows(c, "failed") /\ call'[c].result = "refused"
                 /\ call'[c].invoice = call[c].invoice /\ call'[c].proof = call[c].proof
              \/ call'[c].screen = None /\ call'[c].result = "error"
<1> DEFINE y == [call[c] EXCEPT !.stage = "settled", !.result = "refused",
                                !.screen = Shows(c, "failed")]
<1>1. ASSUME NEW x \in Call, NEW a \in Stages, NEW r \in Results, NEW s \in Screens \cup {None}
      PROVE  [x EXCEPT !.stage = a, !.result = r, !.screen = s] \in Call
  BY DEF Call
<1>2. call[c] \in Call /\ Shows(c, "failed") \in Screens \cup {None}
  BY Values DEF TypeOK, Shows
<1>3. y \in Call
  <2>1. "settled" \in Stages /\ "refused" \in Results
    BY Values
  <2> QED
    BY <1>1, <1>2, <2>1
<1>4. /\ y.stage = "settled" /\ y.screen = Shows(c, "failed") /\ y.enrolled = call[c].enrolled
      /\ y.result = "refused" /\ y.invoice = call[c].invoice /\ y.proof = call[c].proof
  BY <1>2 DEF Call
<1>5. CASE Settle(c, "error")
  BY <1>5, SettleMove, Values
<1>6. CASE ~Settle(c, "error")
  <2>1. call' = [call EXCEPT ![c] = y]
    BY <1>6 DEF TypeOK, RetryFails
  <2> HIDE DEF y
  <2> QED
    BY <1>3, <1>4, <2>1, Becomes
<1> QED
  BY <1>5, <1>6

\* The wallet, the payment and the retry mark an invoice; whose it is, and of which
\* boot and type, stays.
LEMMA MarkMove ==
    ASSUME TypeOK, NEW i \in Invoices, invoice[i] # None,
           NEW w \in BOOLEAN, NEW p \in BOOLEAN,
           \/ invoice' = [invoice EXCEPT ![i].wallet = w]
           \/ invoice' = [invoice EXCEPT ![i].paid = p]
           \/ invoice' = [invoice EXCEPT ![i].presented = p]
           \/ invoice' = [invoice EXCEPT ![i].wallet = w, ![i].paid = TRUE]
           \/ invoice' = [invoice EXCEPT ![i].wallet = w, ![i].paid = TRUE, ![i].presented = p]
    PROVE  /\ invoice' \in [Invoices -> Invoice \cup {None}]
           /\ invoice'[i] # None
           /\ invoice'[i].for = invoice[i].for /\ invoice'[i].boot = invoice[i].boot
           /\ invoice'[i].type = invoice[i].type
           /\ \A j \in Invoices : j # i => invoice'[j] = invoice[j]
<1>1. invoice[i] \in Invoice
  BY DEF TypeOK
<1>2. \/ invoice' = [invoice EXCEPT ![i] = [invoice[i] EXCEPT !.wallet = w]]
      \/ invoice' = [invoice EXCEPT ![i] = [invoice[i] EXCEPT !.paid = p]]
      \/ invoice' = [invoice EXCEPT ![i] = [invoice[i] EXCEPT !.presented = p]]
      \/ invoice' = [invoice EXCEPT ![i] = [invoice[i] EXCEPT !.wallet = w, !.paid = TRUE]]
      \/ invoice' = [invoice EXCEPT ![i] =
            [invoice[i] EXCEPT !.wallet = w, !.paid = TRUE, !.presented = p]]
  BY DEF TypeOK
<1>3. PICK v : /\ invoice' = [invoice EXCEPT ![i] = v]
               /\ \/ v = [invoice[i] EXCEPT !.wallet = w]
                  \/ v = [invoice[i] EXCEPT !.paid = p]
                  \/ v = [invoice[i] EXCEPT !.presented = p]
                  \/ v = [invoice[i] EXCEPT !.wallet = w, !.paid = TRUE]
                  \/ v = [invoice[i] EXCEPT !.wallet = w, !.paid = TRUE, !.presented = p]
  BY <1>2
<1>4. v \in Invoice
  BY <1>1, <1>3 DEF Invoice
<1>5. v.for = invoice[i].for /\ v.boot = invoice[i].boot /\ v.type = invoice[i].type
  BY <1>1, <1>3 DEF Invoice
<1> QED
  BY <1>3, <1>4, <1>5, NoneAssumption DEF TypeOK

-----------------------------------------------------------------------------
(* Type correctness, and what a modal shows *)

\* A call that is answering a challenge.
Armed == {"waiting", "retrying", "leaving"}

\* The invoice of a call that answers a challenge is its own.
InvoiceOK(c) ==
    call[c].stage \in Armed =>
        /\ call[c].invoice \in Invoices
        /\ invoice[call[c].invoice] # None
        /\ invoice[call[c].invoice].for = c

\* The buttons are there exactly as long as the call waits.
ScreenOK(c) ==
    /\ call[c].stage \in {"idle", "fetching"} => call[c].screen = None
    /\ call[c].screen \in {"awaiting", "paying"} => call[c].stage = "waiting"
    /\ call[c].stage = "waiting" =>
        \/ call[c].screen = "awaiting"
        \/ call[c].screen = "paying" /\ invoice[call[c].invoice].wallet

\* A result is the end of a call, and but for a refusal the end of its modal.
ResultOK(c) ==
    /\ call[c].stage = "settled" <=> call[c].result # None
    /\ call[c].result \in {"ok", "error", "overflow"} => call[c].screen = None

CallOK(c) == InvoiceOK(c) /\ ScreenOK(c) /\ ResultOK(c)

ScreenInv == TypeOK /\ \A c \in Calls : CallOK(c)

LEMMA ScreenInit == Init => ScreenInv
<1> SUFFICES ASSUME Init PROVE ScreenInv
  OBVIOUS
<1>1. Idle \in Call
  BY BoundsAssumption, NoneAssumption DEF Idle, Call, Stages, Proofs
<1>2. TypeOK
  <2>1. call \in [Calls -> Call]
    <3> HIDE DEF Idle
    <3> QED
      BY <1>1 DEF Init
  <2>2. boot \in Boots
    BY BoundsAssumption DEF Init, Boots
  <2> QED
    BY <2>1, <2>2 DEF Init, TypeOK
<1>3. ASSUME NEW c \in Calls PROVE CallOK(c)
  <2>1. call[c].stage = "idle" /\ call[c].screen = None /\ call[c].result = None
    BY DEF Init, Idle
  <2>2. None \notin {"awaiting", "paying", "ok", "error", "overflow"}
    BY NoneAssumption DEF Screens, Results
  <2> QED
    BY <2>1, <2>2 DEF CallOK, InvoiceOK, ScreenOK, ResultOK, Armed
<1> QED
  BY <1>2, <1>3 DEF ScreenInv

\* What the calls that a step does not touch need of the invoices.
Unharmed(d) ==
    call[d].stage \in Armed =>
        /\ invoice'[call[d].invoice] # None
        /\ invoice'[call[d].invoice].for = d
        /\ call[d].stage = "waiting" /\ invoice[call[d].invoice].wallet =>
                invoice'[call[d].invoice].wallet

LEMMA OthersOK ==
    ASSUME ScreenInv, NEW d \in Calls, call'[d] = call[d], Unharmed(d)
    PROVE  CallOK(d)'
<1>1. CallOK(d)
  BY DEF ScreenInv
<1>2. InvoiceOK(d)'
  BY <1>1 DEF CallOK, InvoiceOK, Unharmed
<1>3. ScreenOK(d)'
  BY <1>1 DEF CallOK, ScreenOK, Unharmed, Armed
<1>4. ResultOK(d)'
  BY <1>1 DEF CallOK, ResultOK
<1> QED
  BY <1>2, <1>3, <1>4 DEF CallOK

\* A step that leaves the invoices alone, or the invoices of the other calls.
LEMMA StillUnharmed ==
    ASSUME ScreenInv, NEW d \in Calls,
           invoice' = invoice \/ \E i \in Invoices :
                /\ \/ invoice[i] = None
                   \/ invoice[i].for # d
                /\ \A j \in Invoices : j # i => invoice'[j] = invoice[j]
    PROVE  Unharmed(d)
<1>1. InvoiceOK(d)
  BY DEF ScreenInv, CallOK
<1> QED
  BY <1>1 DEF InvoiceOK, Unharmed

\* The ends of a call.
LEMMA SettledOK ==
    ASSUME NEW c \in Calls, call'[c].stage = "settled",
           \/ call'[c].result \in {"error", "overflow", "ok"} /\ call'[c].screen = None
           \/ call'[c].result = "refused" /\ call'[c].screen \notin {"awaiting", "paying"}
    PROVE  CallOK(c)'
<1>1. None \notin {"awaiting", "paying", "ok", "error", "overflow", "refused"}
  BY NoneAssumption DEF Screens, Results
<1> QED
  BY <1>1 DEF CallOK, InvoiceOK, ScreenOK, ResultOK, Armed

LEMMA ScreenCall ==
    ASSUME ScreenInv, NEW c \in Calls, CallStep(c)
    PROVE  ScreenInv'
<1>1. TypeOK /\ CallOK(c) /\ None \notin Screens \cup Results
  BY NoneAssumption DEF ScreenInv
<1>2. ASSUME Keeps(c), CallOK(c)', invoice' \in [Invoices -> Invoice \cup {None}],
             stored' \in Boots \cup {None}, UNCHANGED <<installed, boot>>,
             \A d \in Calls : d # c => Unharmed(d)
      PROVE  ScreenInv'
  <2>1. TypeOK'
    BY <1>1, <1>2 DEF TypeOK, Keeps
  <2>2. ASSUME NEW d \in Calls PROVE CallOK(d)'
    <3>1. CASE d = c
      BY <1>2, <3>1
    <3>2. CASE d # c
      BY <1>2, <3>2, OthersOK DEF Keeps
    <3> QED
      BY <3>1, <3>2
  <2> QED
    BY <2>1, <2>2 DEF ScreenInv
<1>3. ASSUME Keeps(c), CallOK(c)', UNCHANGED <<installed, stored, boot, invoice>>
      PROVE  ScreenInv'
  <2>1. \A d \in Calls : Unharmed(d)
    BY <1>3, StillUnharmed
  <2> QED
    BY <1>1, <1>2, <1>3, <2>1 DEF TypeOK
<1>4. ASSUME RunEngine(c), call[c].result = None, UNCHANGED <<installed, stored, boot, invoice>>
      PROVE  ScreenInv'
  <2>1. CASE call'[c].stage = "settled"
    BY <1>1, <1>3, <1>4, <2>1, RunEngineMove, SettledOK
  <2>2. CASE call'[c].stage # "settled"
    <3>1. /\ Keeps(c) /\ call'[c].stage = "fetching" /\ call'[c].screen = None
          /\ call'[c].result = None
      BY <1>1, <1>4, <2>2, RunEngineMove
    <3>2. CallOK(c)'
      BY <1>1, <3>1, NoneAssumption
         DEF CallOK, InvoiceOK, ScreenOK, ResultOK, Armed, Screens, Results
    <3> QED
      BY <1>3, <1>4, <3>1, <3>2
  <2> QED
    BY <2>1, <2>2
<1>5. ASSUME NEW result \in {"refused", "error", "ok", "overflow"}, Settle(c, result),
             UNCHANGED <<installed, stored, boot, invoice>>
      PROVE  ScreenInv'
  <2>1. result \in Results /\ None \notin {"awaiting", "paying"}
    BY <1>1 DEF Results, Screens
  <2>2. Keeps(c) /\ CallOK(c)'
    BY <1>1, <1>5, <2>1, SettleMove, SettledOK
  <2> QED
    BY <1>3, <1>5, <2>2
<1>6. CASE Start(c)
  BY <1>1, <1>4, <1>6 DEF Start, CallOK, ResultOK
<1>7. CASE Challenge(c)
  <2>1. PICK i \in Invoices :
            /\ call'[c].invoice = i
            /\ invoice[i] = None /\ invoice' \in [Invoices -> Invoice \cup {None}]
            /\ invoice'[i] \in Invoice
            /\ invoice'[i].for = c
            /\ \A j \in Invoices : j # i => invoice'[j] = invoice[j]
    BY <1>1, <1>7, ChallengeMove
  <2>2. /\ Keeps(c) /\ call'[c].stage = "waiting" /\ call'[c].screen = "awaiting"
        /\ call'[c].result = None
    BY <1>1, <1>7, ChallengeMove DEF Challenge, CallOK, ResultOK
  <2>3. CallOK(c)'
    BY <1>1, <2>1, <2>2, NoneAssumption
       DEF CallOK, InvoiceOK, ScreenOK, ResultOK, Armed, Results, Screens
  <2>4. \A d \in Calls : Unharmed(d)
    BY <2>1, StillUnharmed
  <2> QED
    BY <1>1, <1>2, <1>7, <2>1, <2>2, <2>3, <2>4 DEF Challenge, TypeOK
<1>8. CASE FetchRefused(c)
  BY <1>5, <1>8 DEF FetchRefused
<1>9. CASE OpenWallet(c)
  <2> DEFINE i == call[c].invoice
  <2>1. call[c].stage = "waiting" /\ i \in Invoices /\ invoice[i] # None /\ invoice[i].for = c
    BY <1>1, <1>9 DEF OpenWallet, CallOK, ScreenOK, InvoiceOK, Armed
  <2>2. invoice' = [invoice EXCEPT ![i].wallet = TRUE]
    BY <1>9 DEF OpenWallet
  <2>3. /\ invoice' \in [Invoices -> Invoice \cup {None}]
        /\ invoice'[i] # None /\ invoice'[i].for = c
        /\ \A j \in Invoices : j # i => invoice'[j] = invoice[j]
    BY <1>1, <2>1, <2>2, MarkMove
  <2>4. invoice'[i].wallet
    BY <1>1, <2>1, <2>2 DEF TypeOK, Invoice
  <2>5. /\ Keeps(c) /\ call'[c].screen = "paying" /\ call'[c].stage = "waiting"
        /\ call'[c].result = call[c].result /\ call'[c].invoice = i
    <3>1. "paying" \in Screens \cup {None} /\ 0 \in 0..Expiry
      BY Values
    <3> QED
      BY <1>1, <1>9, <2>1, <3>1, ScreenMove DEF OpenWallet
  <2>6. CallOK(c)'
    BY <1>1, <2>1, <2>3, <2>4, <2>5, NoneAssumption
       DEF CallOK, InvoiceOK, ScreenOK, ResultOK, Armed, Results, Screens
  <2>7. \A d \in Calls : d # c => Unharmed(d)
    BY <2>1, <2>3, StillUnharmed
  <2> QED
    BY <1>1, <1>2, <1>9, <2>3, <2>5, <2>6, <2>7 DEF OpenWallet, TypeOK
<1>10. CASE SubmitPreimage(c)
  <2> DEFINE i == call[c].invoice
  <2>1. call[c].stage = "waiting" /\ i \in Invoices /\ invoice[i] # None /\ invoice[i].for = c
    BY <1>1, <1>10 DEF SubmitPreimage, CallOK, ScreenOK, InvoiceOK, Armed
  <2>2. PICK p \in BOOLEAN : invoice' = [invoice EXCEPT ![i].presented = p]
    <3>1. installed = TRUE \/ installed = FALSE
      BY <1>1 DEF TypeOK
    <3>2. CASE installed = TRUE
      BY <1>10, <3>2 DEF SubmitPreimage
    <3>3. CASE installed = FALSE
      BY <1>10, <3>3 DEF SubmitPreimage
    <3> QED
      BY <3>1, <3>2, <3>3
  <2>3. /\ invoice' \in [Invoices -> Invoice \cup {None}]
        /\ invoice'[i] # None /\ invoice'[i].for = c
        /\ \A j \in Invoices : j # i => invoice'[j] = invoice[j]
    BY <1>1, <2>1, <2>2, MarkMove
  <2>4. invoice[i].paid \in BOOLEAN
    BY <1>1, <2>1 DEF TypeOK, Invoice
  <2>5. PICK proof \in BOOLEAN : Present(c, proof)
    BY <1>10, <2>4 DEF SubmitPreimage
  <2>6. Keeps(c) /\ CallOK(c)'
    <3>1. CASE call'[c].stage = "settled"
      BY <1>1, <2>5, <3>1, PresentMove, SettledOK
    <3>2. CASE call'[c].stage # "settled"
      <4>1. /\ Keeps(c) /\ call'[c].stage = "retrying" /\ call'[c].result = call[c].result
            /\ call'[c].screen = "verifying" /\ call'[c].invoice = i
        BY <1>1, <2>5, <3>2, PresentMove
      <4> QED
        BY <1>1, <2>1, <2>3, <4>1, NoneAssumption
           DEF CallOK, InvoiceOK, ScreenOK, ResultOK, Armed, Results, Screens
    <3> QED
      BY <3>1, <3>2
  <2>7. \A d \in Calls : d # c => Unharmed(d)
    BY <2>1, <2>3, StillUnharmed
  <2> QED
    BY <1>1, <1>2, <1>10, <2>3, <2>6, <2>7 DEF SubmitPreimage, TypeOK
<1>11. CASE Countdown(c)
  <2>1. CASE Settle(c, "error")
    BY <1>5, <1>11, <2>1 DEF Countdown
  <2>2. CASE call[c].left > 1 /\ call' = [call EXCEPT ![c].left = @ - 1]
    <3>1. /\ Keeps(c) /\ call'[c].screen = call[c].screen
          /\ call'[c].stage = call[c].stage /\ call'[c].result = call[c].result
          /\ call'[c].invoice = call[c].invoice
      BY <1>1, <2>2, TickMove
    <3>2. CallOK(c)'
      BY <1>1, <1>11, <3>1 DEF Countdown, CallOK, InvoiceOK, ScreenOK, ResultOK, Armed
    <3> QED
      BY <1>3, <1>11, <3>1, <3>2 DEF Countdown
  <2>3. CASE /\ call[c].stage # "waiting"
             /\ call' = [call EXCEPT ![c].left = 0, ![c].screen = "expired"]
    <3>1. "expired" \in Screens \cup {None} /\ 0 \in 0..Expiry
      BY Values
    <3>2. /\ Keeps(c) /\ call'[c].screen = "expired"
          /\ call'[c].stage = call[c].stage /\ call'[c].result = call[c].result
          /\ call'[c].invoice = call[c].invoice
      BY <1>1, <2>3, <3>1, ScreenMove
    <3>3. CallOK(c)'
      BY <1>1, <1>11, <2>3, <3>2 DEF Countdown, CallOK, InvoiceOK, ScreenOK, ResultOK, Armed
    <3> QED
      BY <1>3, <1>11, <3>2, <3>3 DEF Countdown
  <2> QED
    BY <1>11, <2>1, <2>2, <2>3 DEF Countdown
<1>12. CASE Close(c)
  <2>1. CASE Settle(c, "error")
    BY <1>5, <1>12, <2>1 DEF Close
  <2>2. CASE ~Settle(c, "error")
    <3>1. None \in Screens \cup {None} /\ 0 \in 0..Expiry
      BY Values
    <3>2. /\ Keeps(c) /\ call'[c].screen = None
          /\ call'[c].stage = call[c].stage /\ call'[c].result = call[c].result
          /\ call'[c].invoice = call[c].invoice /\ call[c].stage # "waiting"
      BY <1>1, <1>12, <2>2, <3>1, ScreenMove DEF Close
    <3>3. CallOK(c)'
      BY <1>1, <1>12, <3>2 DEF Close, CallOK, InvoiceOK, ScreenOK, ResultOK, Armed, Screens
    <3> QED
      BY <1>3, <1>12, <3>2, <3>3 DEF Close
  <2> QED
    BY <2>1, <2>2
<1>13. Shows(c, "granted") \notin {"awaiting", "paying"} /\ Shows(c, "failed") \notin {"awaiting", "paying"}
  BY <1>1 DEF Shows, Screens
<1>14. ASSUME Keeps(c), call[c].stage = "retrying", call'[c].stage = "leaving",
              call'[c].screen = Shows(c, "granted"), call'[c].result = call[c].result,
              call'[c].invoice = call[c].invoice, invoice' = invoice
       PROVE  CallOK(c)'
  BY <1>1, <1>13, <1>14 DEF CallOK, InvoiceOK, ScreenOK, ResultOK, Armed, Results
<1>15. CASE RetryEnrolls(c)
  <2>1. Keeps(c) /\ CallOK(c)'
    BY <1>1, <1>14, <1>15, EnrollsMove DEF RetryEnrolls
  <2>2. \A d \in Calls : Unharmed(d)
    BY <1>15, StillUnharmed DEF RetryEnrolls
  <2> QED
    BY <1>1, <1>2, <1>15, <2>1, <2>2 DEF RetryEnrolls, TypeOK
<1>16. CASE RetryForwarded(c)
  <2>1. Keeps(c) /\ CallOK(c)'
    <3>1. CASE call'[c].stage = "settled"
      BY <1>1, <1>16, <3>1, ForwardedMove, SettledOK
    <3>2. CASE call'[c].stage # "settled"
      BY <1>1, <1>14, <1>16, <3>2, ForwardedMove DEF RetryForwarded
    <3> QED
      BY <3>1, <3>2
  <2> QED
    BY <1>3, <1>16, <2>1 DEF RetryForwarded
<1>17. CASE RetryFails(c)
  <2>1. Keeps(c) /\ CallOK(c)'
    BY <1>1, <1>13, <1>17, FailsMove, SettledOK
  <2> QED
    BY <1>3, <1>17, <2>1 DEF RetryFails
<1>18. CASE Leave(c)
  <2>1. CASE Settle(c, "ok")
    BY <1>5, <1>18, <2>1 DEF Leave
  <2>2. CASE RunEngine(c)
    BY <1>1, <1>4, <1>18, <2>2 DEF Leave, CallOK, ResultOK
  <2> QED
    BY <1>18, <2>1, <2>2 DEF Leave
<1> QED
  BY <1>6, <1>7, <1>8, <1>9, <1>10, <1>11, <1>12, <1>15, <1>16, <1>17, <1>18 DEF CallStep

\* The steps of an invoice: its wallet answers, or it is paid elsewhere.
LEMMA ScreenInvoice ==
    ASSUME ScreenInv, NEW i \in Invoices,
           WalletPays(i) \/ WalletRejects(i) \/ PayElsewhere(i)
    PROVE  ScreenInv'
<1>1. TypeOK /\ invoice[i] # None /\ UNCHANGED <<installed, stored, boot>>
  BY DEF ScreenInv, WalletPays, WalletRejects, PayElsewhere
<1>2. ASSUME NEW d \in Calls, d \in Pending(i)
      PROVE  d = invoice[i].for /\ call[d].stage = "waiting" /\ call[d].invoice = i /\ CallOK(d)
  BY <1>2 DEF ScreenInv, CallOK, InvoiceOK, Armed, Pending
<1>3. ASSUME invoice' \in [Invoices -> Invoice \cup {None}],
             invoice'[i] # None, invoice'[i].for = invoice[i].for,
             \A j \in Invoices : j # i => invoice'[j] = invoice[j],
             NEW d \in Calls, d \notin Pending(i)
      PROVE  Unharmed(d)
  <2>1. InvoiceOK(d)
    BY DEF ScreenInv, CallOK
  <2> QED
    BY <1>3, <2>1 DEF InvoiceOK, Unharmed, Pending
<1>4. ASSUME NEW c \in Pending(i), Keeps(c), CallOK(c)',
             invoice' \in [Invoices -> Invoice \cup {None}],
             invoice'[i] # None, invoice'[i].for = invoice[i].for,
             \A j \in Invoices : j # i => invoice'[j] = invoice[j]
      PROVE  ScreenInv'
  <2>1. c \in Calls /\ c = invoice[i].for
    BY <1>2 DEF Pending
  <2>2. ASSUME NEW d \in Calls PROVE CallOK(d)'
    <3>1. CASE d = c
      BY <1>4, <3>1
    <3>2. CASE d # c
      BY <1>2, <1>3, <1>4, <2>1, <3>2, OthersOK DEF Keeps
    <3> QED
      BY <3>1, <3>2
  <2>3. TypeOK'
    BY <1>1, <1>4 DEF TypeOK, Keeps
  <2> QED
    BY <2>2, <2>3 DEF ScreenInv
<1>5. ASSUME NEW c \in Pending(i), call' = [call EXCEPT ![c].screen = "awaiting"],
             invoice' \in [Invoices -> Invoice \cup {None}],
             invoice'[i] # None, invoice'[i].for = invoice[i].for,
             \A j \in Invoices : j # i => invoice'[j] = invoice[j]
      PROVE  ScreenInv'
  <2>1. c \in Calls /\ c = invoice[i].for /\ call[c].stage = "waiting" /\ call[c].invoice = i /\ CallOK(c)
    BY <1>2 DEF Pending
  <2>2. "awaiting" \in Screens \cup {None} /\ 0 \in 0..Expiry
    BY Values
  <2>3. /\ Keeps(c) /\ call'[c].screen = "awaiting" /\ call'[c].stage = "waiting"
        /\ call'[c].result = call[c].result /\ call'[c].invoice = i
    BY <1>1, <1>5, <2>1, <2>2, ScreenMove
  <2>4. CallOK(c)'
    BY <1>5, <2>1, <2>3, NoneAssumption
       DEF CallOK, InvoiceOK, ScreenOK, ResultOK, Armed, Results, Screens
  <2> QED
    BY <1>4, <1>5, <2>3, <2>4
<1>6. ASSUME \/ /\ Pending(i) = {} /\ UNCHANGED call
                /\ \/ invoice' = [invoice EXCEPT ![i].wallet = FALSE]
                   \/ invoice' = [invoice EXCEPT ![i].wallet = FALSE, ![i].paid = TRUE]
             \/ PayElsewhere(i)
      PROVE  ScreenInv'
  <2>1. /\ invoice' \in [Invoices -> Invoice \cup {None}]
        /\ invoice'[i] # None /\ invoice'[i].for = invoice[i].for
        /\ \A j \in Invoices : j # i => invoice'[j] = invoice[j]
    BY <1>1, <1>6, MarkMove DEF PayElsewhere
  <2>2. ASSUME NEW d \in Calls PROVE Unharmed(d)
    <3>1. CASE d \notin Pending(i)
      BY <1>3, <2>1, <3>1
    <3>2. CASE d \in Pending(i)
      <4>1. invoice' = [invoice EXCEPT ![i].paid = TRUE]
        BY <1>6, <3>2 DEF PayElsewhere
      <4>2. invoice'[i] = [invoice[i] EXCEPT !.paid = TRUE] /\ invoice[i] \in Invoice
        BY <1>1, <4>1 DEF TypeOK
      <4>3. invoice[i].wallet => invoice'[i].wallet
        BY <4>2 DEF Invoice
      <4> QED
        BY <1>2, <2>1, <3>2, <4>3 DEF Unharmed
    <3> QED
      BY <3>1, <3>2
  <2>3. call' = call
    BY <1>6 DEF PayElsewhere
  <2>4. \A d \in Calls : CallOK(d)'
    BY <2>2, <2>3, OthersOK
  <2> QED
    BY <1>1, <2>1, <2>3, <2>4 DEF ScreenInv, TypeOK
<1>7. CASE WalletPays(i)
  <2>1. CASE Pending(i) = {} /\ invoice' = [invoice EXCEPT ![i].wallet = FALSE, ![i].paid = TRUE]
              /\ UNCHANGED call
    BY <1>6, <2>1
  <2>2. ASSUME NEW c \in Pending(i), Present(c, TRUE),
               invoice' = [invoice EXCEPT ![i].wallet = FALSE, ![i].paid = TRUE,
                                          ![i].presented = ~installed]
        PROVE  ScreenInv'
    <3>1. /\ c \in Calls /\ c = invoice[i].for /\ call[c].stage = "waiting"
          /\ call[c].invoice = i /\ CallOK(c)
      BY <1>2 DEF Pending
    <3>2. PICK p \in BOOLEAN : invoice' =
              [invoice EXCEPT ![i].wallet = FALSE, ![i].paid = TRUE, ![i].presented = p]
      <4>1. installed = TRUE \/ installed = FALSE
        BY <1>1 DEF TypeOK
      <4>2. CASE installed = TRUE
        BY <2>2, <4>2
      <4>3. CASE installed = FALSE
        BY <2>2, <4>3
      <4> QED
        BY <4>1, <4>2, <4>3
    <3>3. /\ invoice' \in [Invoices -> Invoice \cup {None}]
          /\ invoice'[i] # None /\ invoice'[i].for = invoice[i].for
          /\ \A j \in Invoices : j # i => invoice'[j] = invoice[j]
      BY <1>1, <3>2, MarkMove
    <3>4. Keeps(c) /\ CallOK(c)'
      <4>1. CASE call'[c].stage = "settled"
        BY <1>1, <2>2, <3>1, <4>1, PresentMove, SettledOK
      <4>2. CASE call'[c].stage # "settled"
        <5>1. /\ Keeps(c) /\ call'[c].stage = "retrying" /\ call'[c].result = call[c].result
              /\ call'[c].screen = "verifying" /\ call'[c].invoice = i
          BY <1>1, <2>2, <3>1, <4>2, PresentMove
        <5> QED
          BY <3>1, <3>3, <5>1, NoneAssumption
             DEF CallOK, InvoiceOK, ScreenOK, ResultOK, Armed, Results, Screens
      <4> QED
        BY <4>1, <4>2
    <3> QED
      BY <1>4, <3>3, <3>4
  <2>3. ASSUME NEW c \in Pending(i), call' = [call EXCEPT ![c].screen = "awaiting"],
               invoice' = [invoice EXCEPT ![i].wallet = FALSE, ![i].paid = TRUE]
        PROVE  ScreenInv'
    <3>1. /\ invoice' \in [Invoices -> Invoice \cup {None}]
          /\ invoice'[i] # None /\ invoice'[i].for = invoice[i].for
          /\ \A j \in Invoices : j # i => invoice'[j] = invoice[j]
      BY <1>1, <2>3, MarkMove
    <3> QED
      BY <1>5, <2>3, <3>1
  <2> QED
    BY <1>7, <2>1, <2>2, <2>3 DEF WalletPays
<1>8. CASE WalletRejects(i)
  <2>1. /\ invoice' = [invoice EXCEPT ![i].wallet = FALSE]
        /\ call' = [c \in Calls |->
              IF c \in Pending(i) THEN [call[c] EXCEPT !.screen = "awaiting"] ELSE call[c]]
    BY <1>8 DEF WalletRejects
  <2>2. CASE Pending(i) = {}
    <3>1. call' = call
      BY <1>1, <2>1, <2>2 DEF TypeOK
    <3> QED
      BY <1>6, <2>1, <2>2, <3>1
  <2>3. ASSUME NEW c \in Pending(i) PROVE ScreenInv'
    <3>1. \A d \in Calls : d \in Pending(i) <=> d = c
      BY <1>2, <2>3 DEF Pending
    <3>2. call' = [call EXCEPT ![c].screen = "awaiting"]
      BY <1>1, <2>1, <3>1 DEF TypeOK
    <3>3. /\ invoice' \in [Invoices -> Invoice \cup {None}]
          /\ invoice'[i] # None /\ invoice'[i].for = invoice[i].for
          /\ \A j \in Invoices : j # i => invoice'[j] = invoice[j]
      BY <1>1, <2>1, MarkMove
    <3> QED
      BY <1>5, <3>2, <3>3
  <2> QED
    BY <2>2, <2>3
<1>9. CASE PayElsewhere(i)
  BY <1>6, <1>9
<1> QED
  BY <1>7, <1>8, <1>9

LEMMA ScreenStep ==
    ASSUME ScreenInv, [Next]_vars
    PROVE  ScreenInv'
<1>1. ASSUME \A d \in Calls : call'[d] = call[d], TypeOK', invoice' = invoice
      PROVE  ScreenInv'
  BY <1>1, StillUnharmed, OthersOK DEF ScreenInv
<1>2. CASE InstallGlobal \/ RestoreGlobal
  BY <1>1, <1>2 DEF InstallGlobal, RestoreGlobal, ScreenInv, TypeOK
<1>3. CASE ClearCredential
  <2>1. \A c \in Calls : [call[c] EXCEPT !.enrolled = None] \in Call
    BY DEF ScreenInv, TypeOK, Call
  <2>2. ASSUME NEW c \in Calls
        PROVE  /\ call'[c] \in Call
               /\ call'[c].stage = call[c].stage /\ call'[c].screen = call[c].screen
               /\ call'[c].invoice = call[c].invoice /\ call'[c].result = call[c].result
    BY <1>3, <2>1 DEF ClearCredential, ScreenInv, TypeOK, Call
  <2>3. ASSUME NEW c \in Calls PROVE CallOK(c)'
    <3>1. CallOK(c) /\ invoice' = invoice
      BY <1>3 DEF ScreenInv, ClearCredential
    <3> QED
      BY <2>2, <3>1 DEF CallOK, InvoiceOK, ScreenOK, ResultOK
  <2>4. TypeOK'
    BY <1>3, <2>1, <2>2 DEF ClearCredential, ScreenInv, TypeOK
  <2> QED
    BY <2>3, <2>4 DEF ScreenInv
<1>4. CASE Restart
  <2>1. boot' \in Boots
    BY <1>4, BoundsAssumption DEF Restart, ScreenInv, TypeOK, Boots
  <2> QED
    BY <1>1, <1>4, <2>1 DEF Restart, ScreenInv, TypeOK
<1>5. CASE UNCHANGED vars
  BY <1>1, <1>5 DEF vars, ScreenInv, TypeOK
<1> QED
  BY <1>2, <1>3, <1>4, <1>5, ScreenCall, ScreenInvoice DEF Next, Environment

\* Together: ScreenInv is an invariant, and the type and the modal with it.
LEMMA ScreenHolds == Spec => []ScreenInv
  BY ScreenInit, ScreenStep, PTL DEF Spec

(***************************************************************************)
(* Type correctness, PaywallWidget!TypeOK: engine, modal, wallet and proxy *)
(* keep every call and every invoice within its type.                      *)
(***************************************************************************)
THEOREM TypeCorrect == Spec => []TypeOK
<1>1. ScreenInv => TypeOK
  BY DEF ScreenInv
<1> QED
  BY <1>1, ScreenHolds, PTL

(***************************************************************************)
(* ModalReleased: a call that returned the paid response or threw has left *)
(* nothing on the page, whatever countdown, wallet and user did after it.  *)
(***************************************************************************)
THEOREM ModalReleasedHolds == Spec => []ModalReleased
<1>1. ScreenInv => ModalReleased
  BY DEF ScreenInv, CallOK, ResultOK, ModalReleased
<1> QED
  BY <1>1, ScreenHolds, PTL

(***************************************************************************)
(* ScreenActionable: as long as a call waits for a payment, its modal has  *)
(* the buttons to pay, or a wallet that has yet to answer.                 *)
(***************************************************************************)
THEOREM ScreenActionableHolds == Spec => []ScreenActionable
<1>1. ScreenInv => ScreenActionable
  BY DEF ScreenInv, CallOK, ScreenOK, ScreenActionable
<1> QED
  BY <1>1, ScreenHolds, PTL

-----------------------------------------------------------------------------
(* No payment is lost behind a response *)

\* An invoice whose preimage was not sent is waited for, or its call has thrown, or
\* has sent another preimage for it.
Owed(i) ==
    LET c == invoice[i].for
    IN  \/ call[c].stage = "waiting" /\ call[c].invoice = i
        \/ call[c].result \in {"error", "overflow"}
        \/ Mistyped(c, i)

OwedInv == \A i \in Invoices : invoice[i] # None /\ ~invoice[i].presented => Owed(i)

LEMMA OwedInit == Init => OwedInv
  BY DEF Init, OwedInv

\* No invoice loses its mark, and none is made.
MarksKept ==
    \A i \in Invoices : invoice'[i] # None =>
        /\ invoice[i] # None /\ invoice'[i].for = invoice[i].for
        /\ invoice[i].presented => invoice'[i].presented

\* A step of a call loses no payment if the call throws, had nothing to wait for or
\* the preimage to show, goes on as before, has sent the proof of its invoice, or
\* goes on with another.
LEMMA OwedKept ==
    ASSUME ScreenInv, OwedInv, NEW c \in Calls, Keeps(c), MarksKept,
           \/ call'[c].result \in {"error", "overflow"}
           \/ call[c].stage \in {"idle", "fetching", "leaving"} /\ call[c].result = None
           \/ call[c].stage = "retrying" /\ call[c].proof # "wrong" /\ call[c].result = None
           \/ /\ call'[c].stage = call[c].stage /\ call'[c].invoice = call[c].invoice
              /\ call'[c].result = call[c].result /\ call'[c].proof = call[c].proof
           \/ call[c].result = None /\ invoice'[call[c].invoice].presented
           \/ /\ call[c].result = None /\ call'[c].invoice = call[c].invoice
              /\ call'[c].stage \in {"retrying", "settled"} /\ call'[c].proof = "wrong"
    PROVE  OwedInv'
<1> SUFFICES ASSUME NEW i \in Invoices, invoice'[i] # None, ~invoice'[i].presented
             PROVE  Owed(i)'
  BY DEF OwedInv
<1>1. /\ invoice[i] # None /\ ~invoice[i].presented /\ invoice'[i].for = invoice[i].for
      /\ Owed(i) /\ invoice[i].for \in Calls
  BY DEF MarksKept, OwedInv, ScreenInv, TypeOK, Invoice
<1>2. None \notin {"error", "overflow"}
  BY NoneAssumption DEF Results
<1>3. CASE invoice[i].for # c
  BY <1>1, <1>3 DEF Keeps, Owed, Mistyped
<1>4. CASE invoice[i].for = c
  BY <1>1, <1>2, <1>4 DEF Owed, Mistyped
<1> QED
  BY <1>3, <1>4

\* A mark on one invoice.
LEMMA MarkKept ==
    ASSUME ScreenInv, NEW i \in Invoices, invoice[i] # None,
           invoice'[i].for = invoice[i].for,
           invoice[i].presented => invoice'[i].presented,
           \A j \in Invoices : j # i => invoice'[j] = invoice[j]
    PROVE  MarksKept
  BY DEF MarksKept

\* Only the invoice of a waiting call may be presented, and it was not before.
LEMMA OwedStep ==
    ASSUME ScreenInv, OwedInv, [Next]_vars
    PROVE  OwedInv'
<1>1. /\ TypeOK
      /\ \A c \in Calls : /\ call[c].stage # "settled" => call[c].result = None
                          /\ CallOK(c)
  BY DEF ScreenInv, CallOK, ResultOK
<1>2. ASSUME invoice' = invoice PROVE MarksKept
  BY <1>2 DEF MarksKept
<1>3. ASSUME NEW c \in Calls, Keeps(c), invoice' = invoice,
             \/ call[c].stage \in {"idle", "fetching", "leaving"}
             \/ call[c].stage = "retrying" /\ call[c].proof # "wrong"
      PROVE  OwedInv'
  BY <1>1, <1>2, <1>3, OwedKept
<1>4. ASSUME NEW c \in Calls, Settle(c, "error"), invoice' = invoice
      PROVE  OwedInv'
  BY <1>1, <1>2, <1>4, OwedKept, SettleMove, Values
<1>5. ASSUME NEW c \in Calls, Challenge(c) PROVE OwedInv'
  <2>1. PICK i \in Invoices :
            /\ call'[c].invoice = i
            /\ invoice[i] = None /\ invoice'[i].for = c
            /\ \A j \in Invoices : j # i => invoice'[j] = invoice[j]
    BY <1>1, <1>5, ChallengeMove
  <2>2. Keeps(c) /\ call'[c].stage = "waiting" /\ call[c].stage = "fetching" /\ call[c].result = None
    BY <1>1, <1>5, ChallengeMove DEF Challenge
  <2>3. ASSUME NEW j \in Invoices, invoice'[j] # None, ~invoice'[j].presented
        PROVE  Owed(j)'
    <3>1. CASE j = i
      BY <2>1, <2>2, <3>1 DEF Owed
    <3>2. CASE j # i
      <4>1. Owed(j) /\ invoice[j].for \in Calls /\ invoice'[j] = invoice[j]
        BY <1>1, <2>1, <2>3, <3>2 DEF OwedInv, TypeOK, Invoice
      <4>2. None \notin {"error", "overflow"}
        BY NoneAssumption DEF Results
      <4> QED
        BY <2>2, <4>1, <4>2 DEF Owed, Mistyped, Keeps
    <3> QED
      BY <3>1, <3>2
  <2> QED
    BY <2>3 DEF OwedInv
<1>6. ASSUME NEW c \in Calls, OpenWallet(c) PROVE OwedInv'
  <2> DEFINE i == call[c].invoice
  <2>1. call[c].stage = "waiting" /\ i \in Invoices /\ invoice[i] # None
    BY <1>1, <1>6 DEF OpenWallet, CallOK, ScreenOK, InvoiceOK, Armed
  <2>2. invoice' = [invoice EXCEPT ![i] = [invoice[i] EXCEPT !.wallet = TRUE]] /\ invoice[i] \in Invoice
    BY <1>1, <1>6, <2>1 DEF OpenWallet, TypeOK
  <2>3. /\ invoice'[i].for = invoice[i].for /\ invoice'[i].presented = invoice[i].presented
        /\ \A j \in Invoices : j # i => invoice'[j] = invoice[j]
    BY <1>1, <2>1, <2>2 DEF TypeOK, Invoice
  <2>4. MarksKept
    BY <2>1, <2>3, MarkKept
  <2>5. "paying" \in Screens \cup {None} /\ 0 \in 0..Expiry
    BY Values
  <2> QED
    BY <1>1, <1>6, <2>4, <2>5, ScreenMove, OwedKept DEF OpenWallet
<1>7. ASSUME NEW c \in Calls, NEW i \in Invoices, call[c].stage = "waiting", call[c].invoice = i,
             invoice[i] # None, NEW proof \in BOOLEAN, Present(c, proof),
             \/ invoice' = [invoice EXCEPT ![i].presented = proof /\ ~installed]
             \/ /\ proof
                /\ invoice' = [invoice EXCEPT ![i].wallet = FALSE, ![i].paid = TRUE,
                                              ![i].presented = ~installed]
      PROVE  OwedInv'
  <2>2. invoice[i] \in Invoice
    BY <1>1, <1>7 DEF TypeOK
  <2>3. CASE ~installed /\ proof
    <3>1. \/ invoice' = [invoice EXCEPT ![i] = [invoice[i] EXCEPT !.presented = TRUE]]
          \/ invoice' = [invoice EXCEPT ![i] =
                [invoice[i] EXCEPT !.wallet = FALSE, !.paid = TRUE, !.presented = TRUE]]
      BY <1>1, <1>7, <2>3 DEF TypeOK
    <3>2. /\ invoice'[i].for = invoice[i].for /\ invoice'[i].presented
          /\ \A j \in Invoices : j # i => invoice'[j] = invoice[j]
      BY <1>1, <2>2, <3>1 DEF TypeOK, Invoice
    <3>3. MarksKept
      BY <1>7, <3>2, MarkKept
    <3> QED
      BY <1>1, <1>7, <3>2, <3>3, PresentMove, OwedKept
  <2>4. CASE installed
    <3>1. Keeps(c) /\ call'[c].result = "overflow"
      BY <1>1, <1>7, <2>4, PresentMove
    <3>2. /\ \A j \in Invoices : j # i => invoice'[j] = invoice[j]
          /\ invoice'[i].for = invoice[i].for
      BY <1>1, <1>7, <2>2 DEF TypeOK, Invoice
    <3>3. ASSUME NEW j \in Invoices, invoice'[j] # None, ~invoice'[j].presented
          PROVE  Owed(j)'
      <4>1. CASE j = i
        <5>1. invoice[i].for = c
          BY <1>1, <1>7 DEF CallOK, InvoiceOK, Armed
        <5> QED
          BY <3>1, <3>2, <4>1, <5>1 DEF Owed
      <4>2. CASE j # i
        <5>1. Owed(j) /\ invoice[j].for \in Calls /\ invoice'[j] = invoice[j]
          BY <1>1, <3>2, <3>3, <4>2 DEF OwedInv, TypeOK, Invoice
        <5> QED
          BY <3>1, <5>1 DEF Owed, Mistyped, Keeps
      <4> QED
        BY <4>1, <4>2
    <3> QED
      BY <3>3 DEF OwedInv
  <2>5. CASE ~installed /\ ~proof
    <3>1. /\ Keeps(c) /\ call'[c].stage = "retrying" /\ call'[c].invoice = i /\ call'[c].proof = "wrong"
      BY <1>1, <1>7, <2>5, PresentMove
    <3>2. /\ \A j \in Invoices : j # i => invoice'[j] = invoice[j]
          /\ invoice'[i].for = invoice[i].for /\ invoice[i].for = c
      BY <1>1, <1>7, <2>2 DEF TypeOK, Invoice, CallOK, InvoiceOK, Armed
    <3>3. call[c].result = None /\ None \notin {"error", "overflow"}
      BY <1>1, <1>7, NoneAssumption DEF Results
    <3>4. ASSUME NEW j \in Invoices, invoice'[j] # None, ~invoice'[j].presented
          PROVE  Owed(j)'
      <4>1. CASE j = i
        BY <3>1, <3>2, <4>1 DEF Owed, Mistyped
      <4>2. CASE j # i
        <5>1. Owed(j) /\ invoice[j].for \in Calls /\ invoice'[j] = invoice[j]
          BY <1>1, <3>2, <3>4, <4>2 DEF OwedInv, TypeOK, Invoice
        <5>2. invoice[j].for # c
          BY <1>7, <3>3, <4>2, <5>1 DEF Owed, Mistyped
        <5> QED
          BY <3>1, <5>1, <5>2 DEF Owed, Mistyped, Keeps
      <4> QED
        BY <4>1, <4>2
    <3> QED
      BY <3>4 DEF OwedInv
  <2> QED
    BY <2>3, <2>4, <2>5
<1>8. ASSUME NEW c \in Calls, SubmitPreimage(c) PROVE OwedInv'
  <2> DEFINE i == call[c].invoice
  <2>1. call[c].stage = "waiting" /\ i \in Invoices /\ invoice[i] # None
    BY <1>1, <1>8 DEF SubmitPreimage, CallOK, ScreenOK, InvoiceOK, Armed
  <2>2. invoice[i].paid \in BOOLEAN
    BY <1>1, <2>1 DEF TypeOK, Invoice
  <2>3. PICK proof \in BOOLEAN :
            /\ Present(c, proof)
            /\ invoice' = [invoice EXCEPT ![i].presented = proof /\ ~installed]
    BY <1>8, <2>2 DEF SubmitPreimage
  <2> QED
    BY <1>7, <1>8, <2>1, <2>3
<1>9. ASSUME NEW c \in Calls, Countdown(c) PROVE OwedInv'
  <2>1. invoice' = invoice
    BY <1>9 DEF Countdown
  <2>2. CASE Settle(c, "error")
    BY <1>4, <2>1, <2>2
  <2>3. CASE call[c].left > 1 /\ call' = [call EXCEPT ![c].left = @ - 1]
    BY <1>1, <1>2, <2>1, <2>3, TickMove, OwedKept
  <2>4. CASE call' = [call EXCEPT ![c].left = 0, ![c].screen = "expired"]
    <3>1. "expired" \in Screens \cup {None} /\ 0 \in 0..Expiry
      BY Values
    <3> QED
      BY <1>1, <1>2, <2>1, <2>4, <3>1, ScreenMove, OwedKept
  <2> QED
    BY <1>9, <2>2, <2>3, <2>4 DEF Countdown
<1>10. ASSUME NEW c \in Calls, Close(c) PROVE OwedInv'
  <2>1. invoice' = invoice
    BY <1>10 DEF Close
  <2>2. CASE Settle(c, "error")
    BY <1>4, <2>1, <2>2
  <2>3. CASE call' = [call EXCEPT ![c].screen = None, ![c].left = 0]
    <3>1. None \in Screens \cup {None} /\ 0 \in 0..Expiry
      BY Values
    <3> QED
      BY <1>1, <1>2, <2>1, <2>3, <3>1, ScreenMove, OwedKept
  <2> QED
    BY <1>10, <2>2, <2>3 DEF Close
<1>11. ASSUME NEW c \in Calls,
              Start(c) \/ FetchRefused(c) \/ RetryEnrolls(c) \/ RetryForwarded(c) \/ Leave(c)
       PROVE  OwedInv'
  <2>1. /\ invoice' = invoice
        /\ \/ call[c].stage \in {"idle", "fetching", "leaving"}
           \/ call[c].stage = "retrying" /\ call[c].proof # "wrong"
    BY <1>11 DEF Start, FetchRefused, RetryEnrolls, RetryForwarded, Leave, Proves
  <2>2. Keeps(c)
    <3>1. CASE Start(c) \/ FetchRefused(c) \/ Leave(c)
      BY <1>1, <3>1, RunEngineMove, SettleMove, Values DEF Start, FetchRefused, Leave
    <3>2. CASE RetryEnrolls(c) \/ RetryForwarded(c)
      BY <1>1, <3>2, EnrollsMove, ForwardedMove
    <3> QED
      BY <1>11, <3>1, <3>2
  <2> QED
    BY <1>3, <2>1, <2>2
<1>19. ASSUME NEW c \in Calls, RetryFails(c) PROVE OwedInv'
  <2>1. /\ Keeps(c) /\ invoice' = invoice /\ call[c].stage = "retrying" /\ call[c].result = None
        /\ call'[c].stage = "settled"
        /\ \/ call'[c].result = "error"
           \/ call'[c].invoice = call[c].invoice /\ call'[c].proof = call[c].proof
    BY <1>1, <1>19, FailsMove DEF RetryFails
  <2>2. CASE call[c].proof # "wrong"
    BY <1>3, <2>1, <2>2
  <2>3. CASE call[c].proof = "wrong"
    BY <1>1, <1>2, <2>1, <2>3, OwedKept
  <2> QED
    BY <2>2, <2>3
\* Steps in which every call stays where it is.
<1>12. ASSUME MarksKept,
              \A c \in Calls : /\ call'[c].stage = call[c].stage
                               /\ call'[c].invoice = call[c].invoice
                               /\ call'[c].result = call[c].result
                               /\ call'[c].proof = call[c].proof
       PROVE  OwedInv'
  <2> SUFFICES ASSUME NEW i \in Invoices, invoice'[i] # None, ~invoice'[i].presented
               PROVE  Owed(i)'
    BY DEF OwedInv
  <2>1. Owed(i) /\ invoice'[i].for = invoice[i].for /\ invoice[i].for \in Calls
    BY <1>1, <1>12 DEF MarksKept, OwedInv, TypeOK, Invoice
  <2> QED
    BY <1>12, <2>1 DEF Owed, Mistyped
<1>13. ASSUME NEW i \in Invoices, invoice[i] # None,
              \/ invoice' = [invoice EXCEPT ![i].wallet = FALSE]
              \/ invoice' = [invoice EXCEPT ![i].paid = TRUE]
              \/ invoice' = [invoice EXCEPT ![i].wallet = FALSE, ![i].paid = TRUE]
       PROVE  MarksKept
  <2>1. invoice[i] \in Invoice
    BY <1>1, <1>13 DEF TypeOK
  <2>2. \/ invoice' = [invoice EXCEPT ![i] = [invoice[i] EXCEPT !.wallet = FALSE]]
        \/ invoice' = [invoice EXCEPT ![i] = [invoice[i] EXCEPT !.paid = TRUE]]
        \/ invoice' = [invoice EXCEPT ![i] = [invoice[i] EXCEPT !.wallet = FALSE, !.paid = TRUE]]
    BY <1>1, <1>13 DEF TypeOK
  <2>3. /\ invoice'[i].for = invoice[i].for /\ invoice'[i].presented = invoice[i].presented
        /\ \A j \in Invoices : j # i => invoice'[j] = invoice[j]
    BY <1>1, <2>1, <2>2 DEF TypeOK, Invoice
  <2> QED
    BY <1>13, <2>3, MarkKept
<1>14. ASSUME NEW i \in Invoices, WalletPays(i) PROVE OwedInv'
  <2>1. invoice[i] # None /\ \A c \in Pending(i) : /\ c \in Calls /\ call[c].stage = "waiting"
                                                   /\ call[c].invoice = i
    BY <1>14 DEF WalletPays, Pending
  <2>2. CASE UNCHANGED call /\ invoice' = [invoice EXCEPT ![i].wallet = FALSE, ![i].paid = TRUE]
    BY <1>12, <1>13, <2>1, <2>2
  <2>3. ASSUME NEW c \in Pending(i), Present(c, TRUE),
               invoice' = [invoice EXCEPT ![i].wallet = FALSE, ![i].paid = TRUE,
                                          ![i].presented = ~installed]
        PROVE  OwedInv'
    BY <1>7, <2>1, <2>3
  <2>4. ASSUME NEW c \in Pending(i), call' = [call EXCEPT ![c].screen = "awaiting"],
               invoice' = [invoice EXCEPT ![i].wallet = FALSE, ![i].paid = TRUE]
        PROVE  OwedInv'
    <3>1. "awaiting" \in Screens \cup {None} /\ 0 \in 0..Expiry
      BY Values
    <3>2. MarksKept
      BY <1>13, <2>1, <2>4
    <3> QED
      BY <1>1, <2>1, <2>4, <3>1, <3>2, ScreenMove, OwedKept
  <2> QED
    BY <1>14, <2>2, <2>3, <2>4 DEF WalletPays
<1>15. ASSUME NEW i \in Invoices, WalletRejects(i) PROVE OwedInv'
  <2>1. MarksKept
    BY <1>13, <1>15 DEF WalletRejects
  <2>2. \A c \in Calls : call[c] \in Call
    BY <1>1 DEF TypeOK
  <2>3. ASSUME NEW c \in Calls
        PROVE  /\ call'[c].stage = call[c].stage /\ call'[c].invoice = call[c].invoice
               /\ call'[c].result = call[c].result /\ call'[c].proof = call[c].proof
    BY <1>15, <2>2 DEF WalletRejects, Call
  <2> QED
    BY <1>12, <2>1, <2>3
<1>16. ASSUME NEW i \in Invoices, PayElsewhere(i) PROVE OwedInv'
  BY <1>12, <1>13, <1>16 DEF PayElsewhere
<1>17. CASE ClearCredential
  <2>1. \A c \in Calls : call[c] \in Call
    BY <1>1 DEF TypeOK
  <2>2. ASSUME NEW c \in Calls
        PROVE  /\ call'[c].stage = call[c].stage /\ call'[c].invoice = call[c].invoice
               /\ call'[c].result = call[c].result /\ call'[c].proof = call[c].proof
    BY <1>17, <2>1 DEF ClearCredential, Call
  <2> QED
    BY <1>2, <1>12, <1>17, <2>2 DEF ClearCredential
<1>18. CASE InstallGlobal \/ RestoreGlobal \/ Restart \/ UNCHANGED vars
  BY <1>2, <1>12, <1>18 DEF InstallGlobal, RestoreGlobal, Restart, vars
<1> QED
  BY <1>5, <1>6, <1>8, <1>9, <1>10, <1>11, <1>14, <1>15, <1>16, <1>17, <1>18, <1>19
     DEF Next, CallStep, Environment

(***************************************************************************)
(* PaymentAccounted: a payment whose preimage was not sent is still waited *)
(* for, or its caller got an exception, or the user typed another preimage *)
(* for it, whatever overlaps: no other response hides it.                  *)
(***************************************************************************)
THEOREM PaymentAccountedHolds == Spec => []PaymentAccounted
<1>1. ScreenInv /\ OwedInv => PaymentAccounted
  BY DEF OwedInv, Owed, PaymentAccounted
<1> QED
  BY <1>1, OwedInit, OwedStep, ScreenHolds, PTL DEF Spec

-----------------------------------------------------------------------------
(* One stake for each boot of the proxy *)

\* A call whose stake this boot honoured finds the credential: it is stored, and
\* read by the engine that runs again.
EnrolledOK(c) ==
    /\ call[c].enrolled # None => call[c].enrolled <= boot
    /\ call[c].enrolled = boot =>
        /\ stored = boot
        /\ call[c].stage = "fetching" => call[c].cred = boot
        /\ call[c].stage = "waiting" /\ invoice[call[c].invoice].boot = boot => Type(c) = "toll"

StakeInv == \A c \in Calls : EnrolledOK(c)

LEMMA StakeInit == Init => StakeInv
<1>1. None # 0
  BY NoneAssumption, BoundsAssumption DEF Boots
<1>2. Init => boot = 0 /\ \A c \in Calls : call[c].enrolled = None
  BY DEF Init, Idle
<1> QED
  BY <1>1, <1>2 DEF StakeInv, EnrolledOK

\* A call that stays as it was, in the same boot and with its invoice.
LEMMA EnrolledKept ==
    ASSUME ScreenInv, StakeInv, NEW d \in Calls, boot' = boot,
           stored' = stored \/ stored' = boot,
           /\ call'[d].stage = call[d].stage /\ call'[d].invoice = call[d].invoice
           /\ call'[d].enrolled = call[d].enrolled /\ call'[d].cred = call[d].cred,
           \A i \in Invoices : invoice[i] # None =>
                invoice'[i].boot = invoice[i].boot /\ invoice'[i].type = invoice[i].type
    PROVE  EnrolledOK(d)'
  BY DEF ScreenInv, StakeInv, EnrolledOK, CallOK, InvoiceOK, Armed, Type

\* A call that is neither fetching nor waiting after a step, or fetches with what
\* is stored.
LEMMA EnrolledMoved ==
    ASSUME StakeInv, NEW c \in Calls, boot' = boot, stored' = stored,
           call'[c].enrolled = call[c].enrolled,
           \/ call'[c].stage \in {"retrying", "leaving", "settled"}
           \/ call'[c].stage = "fetching" /\ call'[c].cred = stored
    PROVE  EnrolledOK(c)'
  BY DEF StakeInv, EnrolledOK

LEMMA StakeStep ==
    ASSUME ScreenInv, StakeInv, [Next]_vars
    PROVE  StakeInv'
<1>1. /\ TypeOK
      /\ \A c \in Calls : CallOK(c) /\ EnrolledOK(c)
  BY DEF ScreenInv, StakeInv
\* Steps of one call that leave the invoices, or mark its own.
<1>2. ASSUME NEW c \in Calls, Keeps(c), EnrolledOK(c)', boot' = boot,
             stored' = stored \/ stored' = boot,
             \A i \in Invoices : invoice[i] # None =>
                invoice'[i].boot = invoice[i].boot /\ invoice'[i].type = invoice[i].type
      PROVE  StakeInv'
  <2>1. ASSUME NEW d \in Calls, d # c PROVE EnrolledOK(d)'
    <3>1. call'[d] = call[d]
      BY <1>2, <2>1 DEF Keeps
    <3> QED
      BY <1>2, <3>1, EnrolledKept
  <2> QED
    BY <1>2, <2>1 DEF StakeInv
<1>3. ASSUME NEW c \in Calls, Keeps(c), UNCHANGED <<stored, boot, invoice>>,
             call'[c].enrolled = call[c].enrolled,
             \/ call'[c].stage \in {"retrying", "leaving", "settled"}
             \/ call'[c].stage = "fetching" /\ call'[c].cred = stored
      PROVE  StakeInv'
  BY <1>2, <1>3, EnrolledMoved
<1>4. ASSUME NEW c \in Calls, NEW result \in Results, Settle(c, result), UNCHANGED <<stored, boot, invoice>>
      PROVE  StakeInv'
  BY <1>1, <1>3, <1>4, SettleMove
<1>5. ASSUME NEW c \in Calls, RunEngine(c), UNCHANGED <<stored, boot, invoice>>
      PROVE  StakeInv'
  BY <1>1, <1>3, <1>5, RunEngineMove
<1>6. ASSUME NEW i \in Invoices, invoice[i] # None,
             NEW w \in BOOLEAN, NEW p \in BOOLEAN,
             \/ invoice' = [invoice EXCEPT ![i].wallet = w]
             \/ invoice' = [invoice EXCEPT ![i].paid = p]
             \/ invoice' = [invoice EXCEPT ![i].presented = p]
             \/ invoice' = [invoice EXCEPT ![i].wallet = w, ![i].paid = TRUE]
             \/ invoice' = [invoice EXCEPT ![i].wallet = w, ![i].paid = TRUE, ![i].presented = p]
      PROVE  \A j \in Invoices : invoice[j] # None =>
                invoice'[j].boot = invoice[j].boot /\ invoice'[j].type = invoice[j].type
  BY <1>1, <1>6, MarkMove
<1>7. ASSUME NEW c \in Calls, Start(c) PROVE StakeInv'
  BY <1>5, <1>7 DEF Start
<1>8. ASSUME NEW c \in Calls, Challenge(c) PROVE StakeInv'
  <2>1. PICK i \in Invoices :
            /\ call'[c].invoice = i
            /\ invoice[i] = None
            /\ invoice'[i].type = "enrollment" => call[c].cred = None
            /\ invoice'[i].type \in {"toll", "enrollment"}
            /\ \A j \in Invoices : j # i => invoice'[j] = invoice[j]
    BY <1>1, <1>8, ChallengeMove
  <2>2. /\ Keeps(c) /\ call'[c].stage = "waiting" /\ call[c].stage = "fetching"
        /\ call'[c].enrolled = call[c].enrolled /\ UNCHANGED <<stored, boot>>
    BY <1>1, <1>8, ChallengeMove DEF Challenge
  <2>3. boot # None
    BY <1>1, NoneAssumption DEF TypeOK
  <2>4. EnrolledOK(c)'
    BY <1>1, <2>1, <2>2, <2>3 DEF EnrolledOK, Type
  <2> QED
    BY <1>2, <2>1, <2>2, <2>4
<1>9. ASSUME NEW c \in Calls, FetchRefused(c) PROVE StakeInv'
  BY <1>4, <1>9, Values DEF FetchRefused
<1>10. ASSUME NEW c \in Calls, OpenWallet(c) PROVE StakeInv'
  <2>1. call[c].invoice \in Invoices /\ invoice[call[c].invoice] # None
    BY <1>1, <1>10 DEF OpenWallet, CallOK, ScreenOK, InvoiceOK, Armed
  <2>2. "paying" \in Screens \cup {None} /\ 0 \in 0..Expiry
    BY Values
  <2>3. \A j \in Invoices : invoice[j] # None =>
            invoice'[j].boot = invoice[j].boot /\ invoice'[j].type = invoice[j].type
    BY <1>6, <1>10, <2>1 DEF OpenWallet
  <2>4. /\ Keeps(c) /\ call'[c].stage = call[c].stage /\ call'[c].invoice = call[c].invoice
        /\ call'[c].enrolled = call[c].enrolled /\ call'[c].cred = call[c].cred
    BY <1>1, <1>10, <2>2, ScreenMove DEF OpenWallet
  <2> QED
    BY <1>2, <1>10, <2>3, <2>4, EnrolledKept DEF OpenWallet
<1>11. ASSUME NEW c \in Calls, NEW proof \in BOOLEAN, Present(c, proof), UNCHANGED <<stored, boot>>,
              \A j \in Invoices : invoice[j] # None =>
                invoice'[j].boot = invoice[j].boot /\ invoice'[j].type = invoice[j].type
       PROVE  StakeInv'
  <2>1. /\ Keeps(c) /\ call'[c].enrolled = call[c].enrolled
        /\ call'[c].stage \in {"retrying", "settled"}
    BY <1>1, <1>11, PresentMove
  <2> QED
    BY <1>2, <1>11, <2>1, EnrolledMoved
<1>12. installed = TRUE \/ installed = FALSE
  BY <1>1 DEF TypeOK
<1>13. ASSUME NEW c \in Calls, SubmitPreimage(c) PROVE StakeInv'
  <2> DEFINE i == call[c].invoice
  <2>1. call[c].stage = "waiting" /\ i \in Invoices /\ invoice[i] # None
    BY <1>1, <1>13 DEF SubmitPreimage, CallOK, ScreenOK, InvoiceOK, Armed
  <2>2. invoice[i].paid \in BOOLEAN
    BY <1>1, <2>1 DEF TypeOK, Invoice
  <2>3. PICK proof \in BOOLEAN : Present(c, proof)
    BY <1>13, <2>2 DEF SubmitPreimage
  <2>4. PICK p \in BOOLEAN : invoice' = [invoice EXCEPT ![i].presented = p]
    <3>1. CASE installed = TRUE
      BY <1>13, <3>1 DEF SubmitPreimage
    <3>2. CASE installed = FALSE
      BY <1>13, <3>2 DEF SubmitPreimage
    <3> QED
      BY <1>12, <3>1, <3>2
  <2>5. \A j \in Invoices : invoice[j] # None =>
            invoice'[j].boot = invoice[j].boot /\ invoice'[j].type = invoice[j].type
    BY <1>6, <2>1, <2>4
  <2> QED
    BY <1>11, <1>13, <2>3, <2>5 DEF SubmitPreimage
<1>14. ASSUME NEW c \in Calls, Countdown(c) PROVE StakeInv'
  <2>1. UNCHANGED <<stored, boot, invoice>>
    BY <1>14 DEF Countdown
  <2>2. CASE Settle(c, "error")
    BY <1>4, <2>1, <2>2, Values
  <2>3. CASE ~Settle(c, "error")
    <3>1. "expired" \in Screens \cup {None} /\ 0 \in 0..Expiry
      BY Values
    <3>2. /\ Keeps(c) /\ call'[c].stage = call[c].stage /\ call'[c].invoice = call[c].invoice
          /\ call'[c].enrolled = call[c].enrolled /\ call'[c].cred = call[c].cred
      BY <1>1, <1>14, <2>3, <3>1, ScreenMove, TickMove DEF Countdown
    <3> QED
      BY <1>2, <2>1, <3>2, EnrolledKept
  <2> QED
    BY <2>2, <2>3
<1>15. ASSUME NEW c \in Calls, Close(c) PROVE StakeInv'
  <2>1. UNCHANGED <<stored, boot, invoice>>
    BY <1>15 DEF Close
  <2>2. CASE Settle(c, "error")
    BY <1>4, <2>1, <2>2, Values
  <2>3. CASE ~Settle(c, "error")
    <3>1. None \in Screens \cup {None} /\ 0 \in 0..Expiry
      BY Values
    <3>2. /\ Keeps(c) /\ call'[c].stage = call[c].stage /\ call'[c].invoice = call[c].invoice
          /\ call'[c].enrolled = call[c].enrolled /\ call'[c].cred = call[c].cred
      BY <1>1, <1>15, <2>3, <3>1, ScreenMove DEF Close
    <3> QED
      BY <1>2, <2>1, <3>2, EnrolledKept
  <2> QED
    BY <2>2, <2>3
<1>16. ASSUME NEW c \in Calls, RetryEnrolls(c) PROVE StakeInv'
  <2>1. /\ Keeps(c) /\ call'[c].stage = "leaving" /\ boot' = boot /\ invoice' = invoice
        /\ \/ stored' = boot /\ call'[c].enrolled = boot
           \/ stored' = stored /\ call'[c].enrolled = call[c].enrolled
    BY <1>1, <1>16, EnrollsMove DEF RetryEnrolls
  <2>2. EnrolledOK(c)'
    <3>1. boot <= boot
      BY <1>1 DEF TypeOK, Boots
    <3>2. CASE stored' = boot /\ call'[c].enrolled = boot
      BY <2>1, <3>1, <3>2 DEF EnrolledOK
    <3>3. CASE stored' = stored /\ call'[c].enrolled = call[c].enrolled
      BY <2>1, <3>3, EnrolledMoved
    <3> QED
      BY <2>1, <3>2, <3>3
  <2> QED
    BY <1>2, <2>1, <2>2
<1>17. ASSUME NEW c \in Calls, RetryForwarded(c) PROVE StakeInv'
  <2>1. /\ Keeps(c) /\ call'[c].stage \in {"leaving", "settled"}
        /\ call'[c].enrolled = call[c].enrolled /\ UNCHANGED <<stored, boot, invoice>>
    BY <1>1, <1>17, ForwardedMove DEF RetryForwarded
  <2> QED
    BY <1>3, <2>1
<1>18. ASSUME NEW c \in Calls, RetryFails(c) PROVE StakeInv'
  <2>1. /\ Keeps(c) /\ call'[c].stage = "settled"
        /\ call'[c].enrolled = call[c].enrolled /\ UNCHANGED <<stored, boot, invoice>>
    BY <1>1, <1>18, FailsMove DEF RetryFails
  <2> QED
    BY <1>3, <2>1
<1>19. ASSUME NEW c \in Calls, Leave(c) PROVE StakeInv'
  BY <1>4, <1>5, <1>19, Values DEF Leave
\* Steps that move no call.
<1>20. ASSUME UNCHANGED <<stored, boot>>,
              \A c \in Calls :
                /\ call'[c].stage = call[c].stage /\ call'[c].invoice = call[c].invoice
                /\ call'[c].enrolled = call[c].enrolled /\ call'[c].cred = call[c].cred,
              \A j \in Invoices : invoice[j] # None =>
                invoice'[j].boot = invoice[j].boot /\ invoice'[j].type = invoice[j].type
       PROVE  StakeInv'
  <2>1. ASSUME NEW c \in Calls PROVE EnrolledOK(c)'
    BY <1>20, EnrolledKept
  <2> QED
    BY <2>1 DEF StakeInv
<1>21. ASSUME NEW i \in Invoices, WalletPays(i) PROVE StakeInv'
  <2>1. invoice[i] # None /\ UNCHANGED <<stored, boot>>
    BY <1>21 DEF WalletPays
  <2>2. CASE UNCHANGED call /\ invoice' = [invoice EXCEPT ![i].wallet = FALSE, ![i].paid = TRUE]
    <3>1. \A j \in Invoices : invoice[j] # None =>
              invoice'[j].boot = invoice[j].boot /\ invoice'[j].type = invoice[j].type
      BY <1>6, <2>1, <2>2
    <3> QED
      BY <1>20, <2>1, <2>2, <3>1
  <2>3. ASSUME NEW c \in Pending(i), Present(c, TRUE),
               invoice' = [invoice EXCEPT ![i].wallet = FALSE, ![i].paid = TRUE,
                                          ![i].presented = ~installed]
        PROVE  StakeInv'
    <3>1. PICK p \in BOOLEAN : invoice' =
              [invoice EXCEPT ![i].wallet = FALSE, ![i].paid = TRUE, ![i].presented = p]
      <4>1. CASE installed = TRUE
        BY <2>3, <4>1
      <4>2. CASE installed = FALSE
        BY <2>3, <4>2
      <4> QED
        BY <1>12, <4>1, <4>2
    <3>2. \A j \in Invoices : invoice[j] # None =>
              invoice'[j].boot = invoice[j].boot /\ invoice'[j].type = invoice[j].type
      BY <1>6, <2>1, <3>1
    <3> QED
      BY <1>11, <2>1, <2>3, <3>2 DEF Pending
  <2>4. ASSUME NEW c \in Pending(i), call' = [call EXCEPT ![c].screen = "awaiting"],
               invoice' = [invoice EXCEPT ![i].wallet = FALSE, ![i].paid = TRUE]
        PROVE  StakeInv'
    <3>1. "awaiting" \in Screens \cup {None} /\ 0 \in 0..Expiry /\ c \in Calls
      BY Values DEF Pending
    <3>2. \A j \in Invoices : invoice[j] # None =>
              invoice'[j].boot = invoice[j].boot /\ invoice'[j].type = invoice[j].type
      BY <1>6, <2>1, <2>4
    <3>3. /\ Keeps(c) /\ call'[c].stage = call[c].stage /\ call'[c].invoice = call[c].invoice
          /\ call'[c].enrolled = call[c].enrolled /\ call'[c].cred = call[c].cred
      BY <1>1, <2>4, <3>1, ScreenMove
    <3> QED
      BY <1>2, <2>1, <3>1, <3>2, <3>3, EnrolledKept
  <2> QED
    BY <1>21, <2>2, <2>3, <2>4 DEF WalletPays
<1>22. ASSUME NEW i \in Invoices, WalletRejects(i) PROVE StakeInv'
  <2>1. \A c \in Calls : call[c] \in Call
    BY <1>1 DEF TypeOK
  <2>2. ASSUME NEW c \in Calls
        PROVE  /\ call'[c].stage = call[c].stage /\ call'[c].invoice = call[c].invoice
               /\ call'[c].enrolled = call[c].enrolled /\ call'[c].cred = call[c].cred
    BY <1>22, <2>1 DEF WalletRejects, Call
  <2> QED
    BY <1>6, <1>20, <1>22, <2>2 DEF WalletRejects
<1>23. ASSUME NEW i \in Invoices, PayElsewhere(i) PROVE StakeInv'
  BY <1>6, <1>20, <1>23 DEF PayElsewhere
<1>24. CASE ClearCredential
  <2>1. boot # None /\ \A c \in Calls : call[c] \in Call
    BY <1>1, NoneAssumption DEF TypeOK
  <2>2. ASSUME NEW c \in Calls PROVE call'[c].enrolled = None
    BY <1>24, <2>1 DEF ClearCredential, Call
  <2> QED
    BY <1>24, <2>1, <2>2 DEF ClearCredential, StakeInv, EnrolledOK
<1>25. CASE Restart
  <2>1. boot \in Nat /\ boot' = boot + 1 /\ call' = call
    BY <1>1, <1>25, BoundsAssumption DEF Restart, TypeOK, Boots
  <2>2. ASSUME NEW c \in Calls PROVE EnrolledOK(c)'
    <3>1. call[c].enrolled \in Boots \cup {None} /\ boot + 1 # None
      BY <1>1, <1>25, <2>1, NoneAssumption, BoundsAssumption DEF Restart, TypeOK, Call, Boots
    <3> QED
      BY <1>1, <2>1, <3>1, BoundsAssumption DEF EnrolledOK, Boots
  <2> QED
    BY <2>2 DEF StakeInv
<1>26. CASE InstallGlobal \/ RestoreGlobal \/ UNCHANGED vars
  BY <1>20, <1>26 DEF InstallGlobal, RestoreGlobal, vars
<1> QED
  BY <1>7, <1>8, <1>9, <1>10, <1>13, <1>14, <1>15, <1>16, <1>17, <1>18, <1>19, <1>21, <1>22,
     <1>23, <1>24, <1>25, <1>26 DEF Next, CallStep, Environment

(***************************************************************************)
(* OneStake: a call whose stake was honoured, and whose credential the     *)
(* browser kept, is asked for no other by the same boot of the proxy,      *)
(* whatever other calls store and whenever the engine runs again.          *)
(***************************************************************************)
THEOREM OneStakeHolds == Spec => []OneStake
<1>1. StakeInv => OneStake
  BY DEF StakeInv, EnrolledOK, OneStake
<1> QED
  BY <1>1, StakeInit, StakeStep, ScreenHolds, PTL DEF Spec
=============================================================================
