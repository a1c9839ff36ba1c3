---------------------------- MODULE PaywallWidget ----------------------------
(***************************************************************************)
(* The browser widget of examples/browser-paywall: calls of its engine     *)
(* with their modals and countdowns, the stored credential, installGlobal, *)
(* and around them the wallet, the user and the answers of the proxy.      *)
(*                                                                         *)
(* JavaScript runs one callback at a time: a step is a callback with the   *)
(* promise reactions it sets off (the .then of awaitPayment that sends the *)
(* retry, the .catch that destroys the modal).  Between callbacks every    *)
(* timer, answer, click and wallet may come first.                         *)
(***************************************************************************)
EXTENDS Integers

CONSTANTS
    Calls,      \* calls of the engine: links, l402Fetch, fetch once patched
    Invoices,   \* the invoices of the challenges
    Expiry,     \* INVOICE_EXPIRY_SECS, in ticks of the countdown
    MaxBoots,   \* bound: restarts of the proxy
    None        \* no credential, no invoice, no modal, no result

VARIABLES
    installed,  \* window.fetch is l402GlobalFetch
    stored,     \* credentialStore: the boot of the proxy that minted it, or None
    boot,       \* restarts of the proxy so far
    call,       \* closures of the calls, with what their modals show
    invoice     \* the invoices, with what the wallet and the proxy know of them

vars == <<installed, stored, boot, call, invoice>>

ASSUME BoundsAssumption == Expiry \in Nat \ {0} /\ MaxBoots \in Nat

Boots == 0..MaxBoots
Stages == {"idle", "fetching", "waiting", "retrying", "leaving", "settled"}
Screens == {"awaiting", "paying", "verifying", "granted", "failed", "expired"}
Results == {"ok", "refused", "error", "overflow"}

\* What the retry carried: the preimage of its invoice, or another.
Proofs == {"unsent", "right", "wrong"}

\* The screen is None once the modal is destroyed; left is secondsLeft.  The last
\* field is history: the boot whose credential this call stored.
Call ==
    [stage : Stages, cred : Boots \cup {None}, invoice : Invoices \cup {None},
     proof : Proofs, screen : Screens \cup {None}, left : 0..Expiry,
     result : Results \cup {None}, enrolled : Boots \cup {None}]

\* wallet: sendPayment has not come back.  presented: its preimage was sent.
Invoice ==
    [for : Calls, type : {"toll", "enrollment"}, boot : Boots,
     wallet : BOOLEAN, paid : BOOLEAN, presented : BOOLEAN]

ASSUME NoneAssumption ==
    /\ None \notin Boots /\ None \notin Invoices /\ None \notin Screens
    /\ None \notin Results /\ None \notin Invoice

TypeOK ==
    /\ installed \in BOOLEAN
    /\ stored \in Boots \cup {None}
    /\ boot \in Boots
    /\ call \in [Calls -> Call]
    /\ invoice \in [Invoices -> Invoice \cup {None}]

Idle ==
    [stage |-> "idle", cred |-> None, invoice |-> None, proof |-> "unsent", screen |-> None,
     left |-> 0, result |-> None, enrolled |-> None]

Init ==
    /\ installed = FALSE
    /\ stored = None
    /\ boot = 0
    /\ call = [c \in Calls |-> Idle]
    /\ invoice = [i \in Invoices |-> None]

-----------------------------------------------------------------------------
(* Helpers of the steps *)

\* The type of the challenge a call answers.
Type(c) == invoice[call[c].invoice].type

\* setState: no screen comes back once the modal is destroyed.
Shows(c, name) == IF call[c].screen = None THEN None ELSE name

\* The promise of the engine settles with the modal destroyed.
Settle(c, result) ==
    call' = [call EXCEPT ![c].stage = "settled", ![c].result = result, ![c].screen = None,
                         ![c].left = 0]

\* Wrong: the engine that runs again goes on with the credential it had.
RunEngineAgain(c) ==
    call' = [call EXCEPT ![c].stage = "fetching", ![c].invoice = None, ![c].proof = "unsent",
                         ![c].screen = None, ![c].left = 0]

\* engine: the credential is read, then fetch is called, and that is the engine
\* again if window.fetch is patched: the stack overflows.
RunEngine(c) ==
    IF installed THEN Settle(c, "overflow")
    ELSE call' = [call EXCEPT ![c].stage = "fetching", ![c].cred = stored,
                              ![c].invoice = None, ![c].proof = "unsent", ![c].screen = None,
                              ![c].left = 0]

\* resolve: the retry goes out, by the same fetch.
Present(c, right) ==
    IF installed THEN Settle(c, "overflow")
    ELSE call' = [call EXCEPT ![c].stage = "retrying",
                              ![c].proof = IF right THEN "right" ELSE "wrong", ![c].screen = "verifying"]

-----------------------------------------------------------------------------
(* The page *)

Start(c) ==
    /\ call[c].stage = "idle"
    /\ RunEngine(c)
    /\ UNCHANGED <<installed, stored, boot, invoice>>

InstallGlobal == installed' = TRUE /\ UNCHANGED <<stored, boot, call, invoice>>

RestoreGlobal == installed' = FALSE /\ UNCHANGED <<stored, boot, call, invoice>>

\* credentialStore.clear, offered by the page; what was bought is forgotten too.
ClearCredential ==
    /\ stored' = None
    /\ call' = [c \in Calls |-> [call[c] EXCEPT !.enrolled = None]]
    /\ UNCHANGED <<installed, boot, invoice>>

-----------------------------------------------------------------------------
(* The first request *)

\* The proxy takes credentials of its own boot only.
Accepts(cred) == cred \in {None, boot}

\* A 402: a stake is asked only of a request without a credential.
Challenge(c) ==
    /\ call[c].stage = "fetching"
    /\ Accepts(call[c].cred)
    /\ \E i \in Invoices, type \in {"toll", "enrollment"} :
        /\ invoice[i] = None
        /\ type = "enrollment" => call[c].cred = None
        /\ invoice' = [invoice EXCEPT ![i] =
                [for |-> c, type |-> type, boot |-> boot, wallet |-> FALSE, paid |-> FALSE,
                 presented |-> FALSE]]
        /\ call' = [call EXCEPT ![c].stage = "waiting", ![c].invoice = i,
                                ![c].screen = "awaiting", ![c].left = Expiry]
    /\ UNCHANGED <<installed, stored, boot>>

\* Any other status is the caller's to see, or the network fails.
FetchRefused(c) ==
    /\ call[c].stage = "fetching"
    /\ \E result \in {"refused", "error"} : Settle(c, result)
    /\ UNCHANGED <<installed, stored, boot, invoice>>

-----------------------------------------------------------------------------
(* The modal *)

\* onProviderPay.
OpenWallet(c) ==
    /\ call[c].screen = "awaiting"
    /\ call' = [call EXCEPT ![c].screen = "paying"]
    /\ invoice' = [invoice EXCEPT ![call[c].invoice].wallet = TRUE]
    /\ UNCHANGED <<installed, stored, boot>>

\* The call whose promise a wallet's answer settles.
Pending(i) == {c \in Calls : call[c].stage = "waiting" /\ call[c].invoice = i}

\* sendPayment comes back, with the preimage or without, perhaps after the modal.
WalletPays(i) ==
    /\ invoice[i] # None
    /\ invoice[i].wallet
    /\ \/ /\ Pending(i) = {}
          /\ invoice' = [invoice EXCEPT ![i].wallet = FALSE, ![i].paid = TRUE]
          /\ UNCHANGED call
       \/ \E c \in Pending(i) :
            /\ invoice' = [invoice EXCEPT ![i].wallet = FALSE, ![i].paid = TRUE,
                                          ![i].presented = ~installed]
            /\ Present(c, TRUE)
       \/ \E c \in Pending(i) :
            /\ invoice' = [invoice EXCEPT ![i].wallet = FALSE, ![i].paid = TRUE]
            /\ call' = [call EXCEPT ![c].screen = "awaiting"]
    /\ UNCHANGED <<installed, stored, boot>>

\* Wrong: the error is shown on the screen that is there.
WalletRejectsInPlace(i) ==
    /\ invoice[i] # None
    /\ invoice[i].wallet
    /\ invoice' = [invoice EXCEPT ![i].wallet = FALSE]
    /\ UNCHANGED <<installed, stored, boot, call>>

WalletRejects(i) ==
    /\ invoice[i] # None
    /\ invoice[i].wallet
    /\ invoice' = [invoice EXCEPT ![i].wallet = FALSE]
    /\ call' = [c \in Calls |->
            IF c \in Pending(i) THEN [call[c] EXCEPT !.screen = "awaiting"] ELSE call[c]]
    /\ UNCHANGED <<installed, stored, boot>>

\* The QR code is paid with another device, whatever became of the modal.
PayElsewhere(i) ==
    /\ invoice[i] # None
    /\ ~invoice[i].paid
    /\ invoice' = [invoice EXCEPT ![i].paid = TRUE]
    /\ UNCHANGED <<installed, stored, boot, call>>

\* onManualSubmit: 64 hexadecimal digits, the preimage or not.
SubmitPreimage(c) ==
    /\ call[c].screen = "awaiting"
    /\ \E right \in {FALSE, invoice[call[c].invoice].paid} :
        /\ Present(c, right)
        /\ invoice' = [invoice EXCEPT ![call[c].invoice].presented = right /\ ~installed]
    /\ UNCHANGED <<installed, stored, boot>>

\* Wrong: the interval is not cleared.
CountdownRunsOn(c) ==
    /\ call[c].screen # None
    /\ IF call[c].left <= 1 /\ call[c].stage = "waiting" THEN Settle(c, "error")
       ELSE call' = [call EXCEPT ![c].left = @ - 1]
    /\ UNCHANGED <<installed, stored, boot, invoice>>

\* Wrong: the wait is over but the promise is not rejected.
CountdownResolves(c) ==
    /\ call[c].screen # None
    /\ call[c].left > 0
    /\ IF call[c].left = 1 /\ call[c].stage = "waiting" THEN Settle(c, "refused")
       ELSE call' = [call EXCEPT ![c].left = @ - 1]
    /\ UNCHANGED <<installed, stored, boot, invoice>>

\* Wrong: no countdown while the wallet is open.
CountdownPauses(c) ==
    /\ call[c].screen \notin {None, "paying"}
    /\ call[c].left > 0
    /\ IF call[c].left = 1 /\ call[c].stage = "waiting" THEN Settle(c, "error")
       ELSE call' = [call EXCEPT ![c].left = @ - 1]
    /\ UNCHANGED <<installed, stored, boot, invoice>>

\* The interval of startCountdown.  It runs on after the promise is resolved, and
\* then the last tick paints "expired" over whatever the modal shows.
Countdown(c) ==
    /\ call[c].screen # None
    /\ call[c].left > 0
    /\ IF call[c].left > 1 THEN call' = [call EXCEPT ![c].left = @ - 1]
       ELSE IF call[c].stage = "waiting" THEN Settle(c, "error")
       ELSE call' = [call EXCEPT ![c].left = 0, ![c].screen = "expired"]
    /\ UNCHANGED <<installed, stored, boot, invoice>>

\* The close button or the overlay.
Close(c) ==
    /\ call[c].screen # None
    /\ IF call[c].stage = "waiting" THEN Settle(c, "error")
       ELSE call' = [call EXCEPT ![c].screen = None, ![c].left = 0]
    /\ UNCHANGED <<installed, stored, boot, invoice>>

-----------------------------------------------------------------------------
(* The retry *)

\* What the proxy takes for a proof: a paid stake of an earlier boot is a toll.
Proves(c) == call[c].proof = "right" /\ Accepts(call[c].cred)
Enrolls(c) == Type(c) = "enrollment" /\ invoice[call[c].invoice].boot = boot

\* A 200 with a credential.  sessionStorage may refuse it, and nobody is told.
RetryEnrolls(c) ==
    /\ call[c].stage = "retrying"
    /\ Proves(c) /\ Enrolls(c)
    /\ \/ /\ stored' = boot
          /\ call' = [call EXCEPT ![c].stage = "leaving", ![c].screen = Shows(c, "granted"),
                                  ![c].enrolled = boot]
       \/ /\ call' = [call EXCEPT ![c].stage = "leaving", ![c].screen = Shows(c, "granted")]
          /\ UNCHANGED stored
    /\ UNCHANGED <<installed, boot, invoice>>

\* The upstream's 200.  The answer to a stake is taken for a credential in JSON:
\* if it is JSON the engine goes on without one, if not the call is an error.
RetryForwarded(c) ==
    /\ call[c].stage = "retrying"
    /\ Proves(c) /\ ~Enrolls(c)
    /\ \/ call' = [call EXCEPT ![c].stage = "leaving", ![c].screen = Shows(c, "granted")]
       \/ Type(c) = "enrollment" /\ Settle(c, "error")
    /\ UNCHANGED <<installed, stored, boot, invoice>>

\* Wrong: nothing catches an error of the retry.
RetryFailsUncaught(c) ==
    /\ call[c].stage = "retrying"
    /\ call' = [call EXCEPT ![c].stage = "settled", ![c].result = "error"]
    /\ UNCHANGED <<installed, stored, boot, invoice>>

\* A 401, an error of the proxy or the upstream, or of the network.
RetryFails(c) ==
    /\ call[c].stage = "retrying"
    /\ \/ call' = [call EXCEPT ![c].stage = "settled", ![c].result = "refused",
                               ![c].screen = Shows(c, "failed")]
       \/ Settle(c, "error")
    /\ UNCHANGED <<installed, stored, boot, invoice>>

\* delay(1200) has passed: a toll returns the response, a stake starts over.
Leave(c) ==
    /\ call[c].stage = "leaving"
    /\ IF Type(c) = "toll" THEN Settle(c, "ok") ELSE RunEngine(c)
    /\ UNCHANGED <<installed, stored, boot, invoice>>

Restart ==
    /\ boot < MaxBoots
    /\ boot' = boot + 1
    /\ UNCHANGED <<installed, stored, call, invoice>>

-----------------------------------------------------------------------------

CallStep(c) ==
    \/ Start(c) \/ Challenge(c) \/ FetchRefused(c)
    \/ OpenWallet(c) \/ SubmitPreimage(c) \/ Countdown(c) \/ Close(c)
    \/ RetryEnrolls(c) \/ RetryForwarded(c) \/ RetryFails(c) \/ Leave(c)

Environment ==
    \/ InstallGlobal \/ RestoreGlobal \/ ClearCredential \/ Restart
    \/ \E i \in Invoices : WalletPays(i) \/ WalletRejects(i) \/ PayElsewhere(i)

Next == (\E c \in Calls : CallStep(c)) \/ Environment

\* The browser fires its timers.  Nothing is assumed of user, wallet or network.
Fairness == \A c \in Calls : WF_vars(Countdown(c)) /\ WF_vars(Leave(c))

Spec == Init /\ [][Next]_vars /\ Fairness

-----------------------------------------------------------------------------
(* Properties *)

\* A call that returned the paid response or threw has left nothing on the page.
ModalReleased ==
    \A c \in Calls : call[c].result \in {"ok", "error", "overflow"} => call[c].screen = None

\* What the user typed for an invoice was not its preimage, and the retry that went
\* out with it is all there will be: the modal takes no second one.
Mistyped(c, i) ==
    /\ call[c].stage \in {"retrying", "settled"}
    /\ call[c].invoice = i /\ call[c].proof = "wrong"

\* A payment that was made and whose preimage was never sent is either still waited
\* for or the caller got an exception: a response hides a lost payment only from a
\* user who typed another preimage for it.
PaymentAccounted ==
    \A i \in Invoices : invoice[i] # None /\ invoice[i].paid /\ ~invoice[i].presented =>
        LET c == invoice[i].for
        IN call[c].stage = "waiting" \/ call[c].result \in {"error", "overflow"} \/ Mistyped(c, i)

\* Whoever waits for the user shows a screen the user can act on, or the wallet
\* has yet to answer: no rejection leaves the modal at "Sending payment...".
ScreenActionable ==
    \A c \in Calls : call[c].stage = "waiting" =>
        \/ call[c].screen = "awaiting"
        \/ call[c].screen = "paying" /\ invoice[call[c].invoice].wallet

\* A call whose stake was honoured and whose credential the browser kept is not asked
\* for another stake by the same proxy: the credential is stored before the engine
\* runs again and reads it, whatever other calls store meanwhile.
OneStake ==
    \A c \in Calls :
        call[c].stage = "waiting" /\ call[c].enrolled = boot /\ invoice[call[c].invoice].boot = boot
            => Type(c) = "toll"

\* Every call comes to an end if the network answers it, whatever user and wallet
\* do: the countdown of the modal bounds the wait.
CallSettles ==
    (\A c \in Calls : []<>(call[c].stage \notin {"fetching", "retrying"})) =>
        \A c \in Calls : (call[c].stage # "idle") ~> (call[c].stage = "settled")
=============================================================================
