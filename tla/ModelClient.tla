---------------------------- MODULE ModelClient ----------------------------
(***************************************************************************)
(* Calls of a language model: callChatModel of                             *)
(* apps/api/src/services/modelClient.ts, with its retries, time-outs and   *)
(* redirects, and the address policy of services/ssrf.ts.  The name of an  *)
(* endpoint may resolve to another address each time, and the endpoint and *)
(* the network may do anything between two awaits.                         *)
(*                                                                         *)
(* An address is a word of AddressBits bits, not 32, and all are IPv4 (the *)
(* resolver is asked for no other).  A range is [base, bits].  Left out:   *)
(* what is sent, the delays between attempts, certificates and logs.       *)
(***************************************************************************)
EXTENDS Integers, Slots

CONSTANTS
  MaxRetries,          \* MODEL_MAX_RETRIES
  AddressBits,         \* 32 in the code
  Addresses,           \* what names may resolve to
  AlwaysBlockedCidrs, DefaultBlockedCidrs, AllowedPrivateCidrs

Bits == 1..AddressBits \* the first is the most significant
Words == [Bits -> {0, 1}]

ASSUME RetriesAssumption == MaxRetries \in Nat
ASSUME AddressesAssumption == AddressBits \in Nat \ {0} /\ Addresses \subseteq Words

\* parseCidr throws at others
ASSUME CidrsAssumption ==
  AlwaysBlockedCidrs \cup DefaultBlockedCidrs \cup AllowedPrivateCidrs
    \subseteq [base : Words, bits : 0..AddressBits]

VARIABLE calls \* where each request is in its call

NoAddress == <<>>
MaxHops == 2
Statuses == {"ok", "redirect", "rejected"} \* 2xx, 3xx, and the others
Outcomes == {"success", "timeout", "unavailable", "malformed", "ssrf", "error"}
NoCall == [pc |-> "none", attempt |-> 0, hops |-> 0, address |-> NoAddress, status |-> "none",
           begun |-> FALSE, outcome |-> "none"]

CallInit == calls = [r \in Requests |-> NoCall]

-----------------------------------------------------------------------------
(* services/ssrf.ts.  The operators of JavaScript are those of 32-bit      *)
(* words: a shift by the whole width is a shift by nothing, which is why   *)
(* no bits at all are a case of their own.                                 *)
Zero == [i \in Bits |-> 0]
Ones == [i \in Bits |-> 1] \* ~0

\* a & b
BitAnd(a, b) == [i \in Bits |-> a[i] * b[i]]

\* word << by
ShiftLeft(word, by) ==
  LET places == by % AddressBits IN
  [i \in Bits |-> IF i + places \in Bits THEN word[i + places] ELSE 0]

mask(bits) == IF bits = 0 THEN Zero ELSE ShiftLeft(Ones, AddressBits - bits)

\* parseCidr
network(cidr) == BitAnd(cidr.base, mask(cidr.bits))

cidrContains(address, cidr) == BitAnd(address, mask(cidr.bits)) = network(cidr)

isAlwaysBlockedAddress(address) == \E c \in AlwaysBlockedCidrs : cidrContains(address, c)

isBlockedAddress(address) ==
  \/ isAlwaysBlockedAddress(address)
  \/ /\ ~ \E c \in AllowedPrivateCidrs : cidrContains(address, c)
     /\ \E c \in DefaultBlockedCidrs : cidrContains(address, c)

-----------------------------------------------------------------------------
CallAt(r, pc) == calls[r].pc = pc

StartCall(r) == calls' = [calls EXCEPT ![r] = [NoCall EXCEPT !.pc = "pin"]]

Outcome(r, outcome, address) ==
  calls' = [calls EXCEPT ![r] = [NoCall EXCEPT !.pc = "done", !.outcome = outcome,
                                                  !.address = address]]

\* A plausible bug: the name is resolved again for the connection.
PinAndForget(r) ==
  /\ CallAt(r, "pin")
  /\ \E checked, address \in Addresses :
       IF isBlockedAddress(checked)
       THEN Outcome(r, "ssrf", checked)
       ELSE calls' = [calls EXCEPT ![r].pc = "send", ![r].address = address]

\* pinUrl, of the endpoint or of a redirect: the address it has checked is the one
\* that the connection goes to
Pin(r) ==
  /\ CallAt(r, "pin")
  /\ \E address \in Addresses :
       IF isBlockedAddress(address)
       THEN Outcome(r, "ssrf", address)
       ELSE calls' = [calls EXCEPT ![r].pc = "send", ![r].address = address]

\* the resolver rejects, or the target of a redirect is no URL: no ModelCallError
PinFails(r) == CallAt(r, "pin") /\ Outcome(r, "error", NoAddress)

\* A plausible bug: attempts are counted one too far.
AttemptFailsOnceMore(r, kind, retryable) ==
  IF retryable /\ calls[r].attempt <= MaxRetries
  THEN calls' = [calls EXCEPT
         ![r] = [NoCall EXCEPT !.pc = "pin", !.attempt = calls[r].attempt + 1,
                               !.begun = calls[r].begun]]
  ELSE Outcome(r, kind, NoAddress)

\* the loop of callChatModel: a new callOnce, or the error of the last
AttemptFails(r, kind, retryable) ==
  IF retryable /\ calls[r].attempt < MaxRetries
  THEN calls' = [calls EXCEPT
         ![r] = [NoCall EXCEPT !.pc = "pin", !.attempt = calls[r].attempt + 1,
                               !.begun = calls[r].begun]]
  ELSE Outcome(r, kind, NoAddress)

\* A plausible bug: whether the headers have arrived is not noted on the error.
retryableForgetful(kind, headersReceived) == kind \in {"timeout", "unavailable"}

\* whether an error of requestPinned is retried
retryable(kind, headersReceived) == kind \in {"timeout", "unavailable"} /\ ~ headersReceived

\* requestPinned, before the headers: the connection fails or is silent for timeoutMs
ConnectionFails(r) ==
  /\ CallAt(r, "send")
  /\ \E kind \in {"timeout", "unavailable"} : AttemptFails(r, kind, retryable(kind, FALSE))

ReceiveHeaders(r) ==
  /\ CallAt(r, "send")
  /\ \E status \in Statuses :
       calls' = [calls EXCEPT ![r].pc = "body", ![r].status = status, ![r].address = NoAddress,
                              ![r].begun = (status = "ok")]

\* ... and after them; an error of the response itself is no ModelCallError
BodyFails(r) ==
  /\ CallAt(r, "body")
  /\ \/ \E kind \in {"timeout", "unavailable"} : AttemptFails(r, kind, retryable(kind, TRUE))
     \/ Outcome(r, "error", NoAddress)

\* A plausible bug: a new redirect starts the count again.
FollowEndlessly(r) ==
  /\ CallAt(r, "body") /\ calls[r].status = "redirect"
  /\ \/ calls' = [calls EXCEPT ![r].pc = "pin", ![r].hops = 1, ![r].status = "none"]
     \/ AttemptFails(r, "unavailable", TRUE)

\* followIfRedirect; too many hops and a redirect to nowhere are errors without the
\* note that the headers have arrived
FollowIfRedirect(r) ==
  /\ CallAt(r, "body") /\ calls[r].status = "redirect"
  /\ \/ /\ calls[r].hops < MaxHops
        /\ calls' = [calls EXCEPT ![r].pc = "pin", ![r].hops = @ + 1, ![r].status = "none"]
     \/ AttemptFails(r, "unavailable", TRUE)

\* 429, 401, 403, other 4xx and 5xx: errors without that note, too
Rejected(r) ==
  /\ CallAt(r, "body") /\ calls[r].status = "rejected"
  /\ AttemptFails(r, "unavailable", TRUE)

\* parseModelResponse
ParseResponse(r) ==
  /\ CallAt(r, "body") /\ calls[r].status = "ok"
  /\ \E outcome \in {"success", "malformed"} : Outcome(r, outcome, NoAddress)

CallStep(r) ==
  \/ Pin(r) \/ PinFails(r) \/ ConnectionFails(r) \/ ReceiveHeaders(r) \/ BodyFails(r)
  \/ FollowIfRedirect(r) \/ Rejected(r) \/ ParseResponse(r)

-----------------------------------------------------------------------------
CallTypeOK ==
  \A r \in Requests :
    calls[r] \in [pc : {"none", "pin", "send", "body", "done"}, attempt : 0..MaxRetries,
                  hops : 0..MaxHops, address : Addresses \cup {NoAddress},
                  status : Statuses \cup {"none"}, begun : BOOLEAN,
                  outcome : Outcomes \cup {"none"}]

(* The policy as sets of addresses, without masks: the addresses that      *)
(* begin as the base does.                                                 *)
CidrRange(cidr) == {a \in Words : \A i \in 1..cidr.bits : a[i] = cidr.base[i]}

\* cidrContains is membership in the range of the prefix, for every base, also one with
\* bits below the prefix, and every number of bits, none and all of them included
MasksAreRanges ==
  \A bits \in 0..AddressBits, base, a \in Words :
    LET cidr == [base |-> base, bits |-> bits] IN
    cidrContains(a, cidr) <=> a \in CidrRange(cidr)

\* the addresses that are not to be called
Forbidden ==
  LET Ranges(cidrs) == UNION {CidrRange(c) : c \in cidrs} IN
  Ranges(AlwaysBlockedCidrs) \cup (Ranges(DefaultBlockedCidrs) \ Ranges(AllowedPrivateCidrs))

(* Every connection goes to an address the policy permits, the first one   *)
(* and after each retry and redirect, whatever the name resolves to        *)
(* meanwhile, and none is refused that the policy permits (pinUrl).  The   *)
(* bit masks of ssrf.ts say the same as the ranges, to the last prefix.    *)
OnlyPermittedAddresses ==
  /\ MasksAreRanges
  /\ \A r \in Requests :
       /\ CallAt(r, "send") => calls[r].address \notin Forbidden
       /\ calls[r].outcome = "ssrf" => calls[r].address \in Forbidden

(* Once the headers of a successful answer have arrived, the call is not   *)
(* sent again: the model may have been paid for it (headersReceived of     *)
(* callChatModel).                                                         *)
ServedOnce == \A r \in Requests : calls[r].begun => calls[r].pc \in {"body", "done"}

\* connections a call may still open
Budget(c) == (MaxRetries - c.attempt) * (MaxHops + 1) + (MaxHops - c.hops)

(* A call ends: every connection after the first uses up some of the       *)
(* budget of retries and redirects.                                        *)
CallsAreBounded ==
  [][\A r \in Requests :
       calls[r].pc \in {"send", "body"} /\ calls'[r].pc = "pin"
         => Budget(calls'[r]) \in 0..(Budget(calls[r]) - 1)]_calls
=============================================================================
