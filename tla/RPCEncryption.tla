---------------------------- MODULE RPCEncryption ----------------------------
(***************************************************************************)
(* The enclave's user RPC shell (go/enclave/rpc/vk_utils.go,               *)
(* rpc_encryption_manager.go).                                             *)
(*                                                                         *)
(* withVKEncryption2 handles a request as follows:                         *)
(*   1. decrypt it with the enclave key (DecryptBytes);                    *)
(*   2. unmarshal it;                                                      *)
(*   3. authenticate the viewing key in its first element;                 *)
(*   4. extract the logical sender and the parameters. The extractor may   *)
(*      read the database: a lookup by hash finds the sender of the stored *)
(*      object, and nil, nil means "not found";                            *)
(*   5. check the sender against the viewing-key account;                  *)
(*   6. execute, and encrypt the answer to the viewing key.                *)
(* The host relays every response, so a plaintext response is visible      *)
(* outside the enclave. An encrypted one is readable only with its         *)
(* viewing key.                                                            *)
(*                                                                         *)
(* The database grows as transactions are stored. Each served request is   *)
(* recorded with the database it was served against.                       *)
(***************************************************************************)
EXTENDS Naturals, FiniteSets

CONSTANTS
    Accounts,  \* accounts holding a viewing key
    Objects,   \* transactions a lookup may ask for
    Owner,     \* Owner[o]: the sender of transaction o
    BadVK,     \* a viewing key whose signature does not authenticate
    NoVK,      \* a request with no elements
    NoSender   \* a call with no from field

ASSUME Owner \in [Objects -> Accounts]
ASSUME {BadVK, NoVK, NoSender} \cap Accounts = {}

(***************************************************************************)
(* A request:                                                              *)
(*   decrypts, parses: whether steps 1 and 2 succeed;                      *)
(*   vk: the viewing key it carries;                                       *)
(*   kind: a call that names its sender, or a lookup by transaction;       *)
(*   params: whether the extractor can decode the parameters;              *)
(*   from: the sender a call names;                                        *)
(*   obj: the transaction a lookup asks for;                               *)
(*   exec: what the backend call returns.                                  *)
(***************************************************************************)
Requests ==
    [decrypts: BOOLEAN, parses: BOOLEAN,
     vk: Accounts \cup {BadVK, NoVK},
     kind: {"call", "lookup"},
     params: {"ok", "bad"},
     from: Accounts \cup {NoSender},
     obj: Objects,
     exec: {"value", "nil", "userErr", "sysErr"}]

VARIABLES
    stored,  \* the transactions in the database
    last     \* the last request served: [req, db, resp]

rpcVars == <<stored, last>>

\* responses.AsPlaintextError, AsEmptyResponse, AsEncrypted*, ToInternalError
Plain(body) == [enc |-> FALSE, to |-> NoVK, body |-> body, executed |-> FALSE]
Enc(vk, body) == [enc |-> TRUE, to |-> vk, body |-> body, executed |-> FALSE]
Executed(resp) == [resp EXCEPT !.executed = TRUE]
Internal == Plain("internal")

NotFound == [found |-> FALSE]

(***************************************************************************)
(* extractFromAndParams: a decode error, "not found" (nil, nil) for a      *)
(* lookup of a transaction not in the database, or the logical sender.     *)
(***************************************************************************)
Extract(r, db) ==
    IF r.params = "bad" THEN [found |-> TRUE, err |-> TRUE, sender |-> NoSender]
    ELSE IF r.kind = "lookup"
    THEN IF r.obj \in db
         THEN [found |-> TRUE, err |-> FALSE, sender |-> Owner[r.obj]]
         ELSE NotFound
    ELSE [found |-> TRUE, err |-> FALSE, sender |-> r.from]

\* Step 6: the backend call and the conversion of its three results.
ExecuteAndEncrypt(r) ==
    Executed(
        IF r.exec = "sysErr" THEN Internal
        ELSE IF r.exec = "userErr" THEN Enc(r.vk, "userErr")
        ELSE IF r.exec = "nil" THEN Enc(r.vk, "empty")
        ELSE Enc(r.vk, "result"))

\* Mutant: the error of ExtractAndAuthenticateViewingKey ignored.
WithVKEncryptionNoAuth(r, db) ==
    LET x == Extract(r, db)
    IN  IF ~r.decrypts THEN Plain("decrypt")
        ELSE IF ~r.parses THEN Plain("unmarshal")
        ELSE IF r.vk = NoVK THEN Plain("vkMissing")
        ELSE IF ~x.found THEN Plain("empty")
        ELSE IF x.err THEN Enc(r.vk, "decodeErr")
        ELSE IF x.sender = NoSender THEN Enc(r.vk, "fromMissing")
        ELSE IF x.sender # r.vk THEN Enc(r.vk, "senderMismatch")
        ELSE ExecuteAndEncrypt(r)

(***************************************************************************)
(* withVKEncryption2, steps 1 to 6, with their early returns in order.     *)
(* withVKEncryption1 is the same with one parameter: it passes the         *)
(* extractor's error and its nil, nil through unchanged.                   *)
(***************************************************************************)
WithVKEncryption(r, db) ==
    LET x == Extract(r, db)
    IN  IF ~r.decrypts THEN Plain("decrypt")
        ELSE IF ~r.parses THEN Plain("unmarshal")
        ELSE IF r.vk = NoVK THEN Plain("vkMissing")
        ELSE IF r.vk = BadVK THEN Plain("vkInvalid")
        ELSE IF ~x.found THEN Plain("empty")
        ELSE IF x.err THEN Enc(r.vk, "decodeErr")
        ELSE IF x.sender = NoSender THEN Enc(r.vk, "fromMissing")
        ELSE IF x.sender # r.vk THEN Enc(r.vk, "senderMismatch")
        ELSE ExecuteAndEncrypt(r)

-----------------------------------------------------------------------------
\* A transaction is executed in a batch and stored.
StoreTx(o) ==
    /\ o \notin stored
    /\ stored' = stored \cup {o}
    /\ UNCHANGED last

\* An RPC entry point of the enclave serves one user request.
Serve(r) ==
    /\ last' = [req |-> r, db |-> stored, resp |-> WithVKEncryption(r, stored)]
    /\ UNCHANGED stored

RPCInit ==
    /\ stored = {}
    /\ last = [req |-> CHOOSE r \in Requests : ~r.decrypts, db |-> {},
               resp |-> Plain("decrypt")]

RPCNext ==
    \/ \E o \in Objects : StoreTx(o)
    \/ \E r \in Requests : Serve(r)
-----------------------------------------------------------------------------
\* The state has its type; a response is encrypted only to an account's key.
RPCTypeOK ==
    /\ stored \subseteq Objects
    /\ last.req \in Requests
    /\ last.db \subseteq stored
    /\ last.resp.enc \in BOOLEAN /\ last.resp.executed \in BOOLEAN
    \* a response is encrypted only to an authenticated viewing key
    /\ last.resp.to \in IF last.resp.enc THEN Accounts ELSE {NoVK}

(***************************************************************************)
(* Spec 6: a response is a plaintext error only for a request that could   *)
(* not be decrypted or parsed, its viewing key included. Every other       *)
(* response is encrypted with the viewing key, apart from raw system       *)
(* errors.                                                                 *)
(***************************************************************************)
ResponsesAsSpecified ==
    ~last.resp.enc /\ last.resp # Executed(Internal) =>
        last.resp.body \in {"decrypt", "unmarshal", "vkMissing", "vkInvalid"}
=============================================================================
