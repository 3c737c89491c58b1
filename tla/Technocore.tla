----------------------------- MODULE Technocore -----------------------------
(***************************************************************************)
(* Technocore requests and self-contained records (core.py).               *)
(*                                                                         *)
(* A nonce is a text or, in what the service returns, a JSON number: a     *)
(* value and, of a text, how many zeros it is padded with.  The room and   *)
(* the body are names; which of them the validators let pass is given.     *)
(* The text of a record is its envelope, behind the prefix rr1.  A room,   *)
(* nonce or text that itself holds the separator of the signed message is  *)
(* left out.                                                               *)
(***************************************************************************)
EXTENDS JsonValues, Naturals

CONSTANTS Rooms,            \* rooms of 1 to 48 URL-safe characters
          Bodies,           \* bodies that are not empty and not too long
          MaxSafeInteger    \* the largest number load_json lets pass

ASSUME SafeAssumption == MaxSafeInteger \in Nat

ASSUME BodiesAssumption == "" \notin Bodies

TECHNOCORE_RECORD_KIND == "technocore-record"

TextNonce(value, zeros) == [form |-> "text", value |-> value, zeros |-> zeros]
NumberNonce(value) == [form |-> "number", value |-> value, zeros |-> 0]

IsNonce(nonce) ==
    /\ nonce = [form |-> nonce.form, value |-> nonce.value, zeros |-> nonce.zeros]
    /\ nonce.value \in Nat /\ nonce.zeros \in Nat

(***************************************************************************)
(* str() of a nonce; and what load_json refuses of one.                    *)
(***************************************************************************)
str(nonce) == [nonce EXCEPT !.form = "text"]

SafeNonce(nonce) == nonce.form = "number" => nonce.value <= MaxSafeInteger

_validate_technocore_coordinates(room, nonce) ==
    room \in Rooms /\ nonce.form = "text"

-----------------------------------------------------------------------------
(***************************************************************************)
(* technocore_request, and technocore_record_request: the key file is read *)
(* once for the envelope inside the text and once for the request.         *)
(***************************************************************************)
technocore_request(room, nonce, text, did) ==
    [did |-> did, nonce |-> nonce, text |-> text,
     sig |-> [signer |-> did, message |-> <<room, nonce, text>>]]

RecordText(room, nonce, body, did) ==
    [rr1 |-> sign_envelope(TECHNOCORE_RECORD_KIND,
                 [body |-> body, nonce |-> nonce, room |-> room], did)]

CanRequest(room, nonce, body) ==
    _validate_technocore_coordinates(room, nonce) /\ body \in Bodies

technocore_record_request(room, nonce, body, did, did_again) ==
    technocore_request(room, nonce, RecordText(room, nonce, body, did), did_again)

IsRequest(value) ==
    /\ DOMAIN value = {"did", "nonce", "sig", "text"}
    /\ value = [field \in DOMAIN value |-> value[field]]

verify_technocore_request(room, request) ==
    /\ IsRequest(request)
    /\ request.sig = [signer  |-> request.did,
                      message |-> <<room, str(request.nonce), request.text>>]

-----------------------------------------------------------------------------
(***************************************************************************)
(* decode_technocore_record_text succeeds.                                 *)
(***************************************************************************)
Decodes(text) ==
    /\ "rr1" \in DOMAIN text
    /\ Verifies(text.rr1, TECHNOCORE_RECORD_KIND)
    /\ DOMAIN text.rr1.payload = {"body", "nonce", "room"}
    /\ LET payload == text.rr1.payload
       IN  /\ _validate_technocore_coordinates(payload.room, payload.nonce)
           /\ payload.body # ""

(***************************************************************************)
(* A fault: the nonce is compared as it comes, number or text.             *)
(***************************************************************************)
SameNonceUnconverted(embedded, response) == embedded = response

SameNonce(embedded, response) == embedded = str(response)

verify_technocore_record(room, record) ==
    /\ {"from", "nonce", "text"} \subseteq DOMAIN record
    /\ Decodes(record.text)
    /\ LET envelope == record.text.rr1
       IN  /\ envelope.payload.room = room
           /\ SameNonce(envelope.payload.nonce, record.nonce)
           /\ envelope.signer = record.from

-----------------------------------------------------------------------------
(***************************************************************************)
(* The service, which is not part of this program: it keeps the text and   *)
(* the writer's DID of a request, but no signature, and gives the nonce    *)
(* back as a text or as a number.                                          *)
(***************************************************************************)
Stored(request, form) ==
    [from |-> request.did, text |-> request.text,
     nonce |-> IF form = "number" THEN NumberNonce(request.nonce.value)
               ELSE request.nonce]
=============================================================================
