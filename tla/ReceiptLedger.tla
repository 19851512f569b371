--------------------------- MODULE ReceiptLedger ---------------------------
(***************************************************************************)
(* src/ledger/receipt.py: a signed receipt, in a file of its own, for every *)
(* executed trade.  HMAC-SHA256 (external) is a free constructor: two      *)
(* signatures are equal only if their keys and their messages are.         *)
(***************************************************************************)
EXTENDS Integers

CONSTANT Keys  \* the values of RECEIPT_SECRET_KEY

VARIABLES receipts,  \* the files of trades/receipts
          secret     \* _secret, read from the configuration at the start

ledgerVars == <<receipts, secret>>

\* Bug: the price is left out of the signed fields.
SignUnpriced(key, data) == [key |-> key, message |-> [data EXCEPT !.price = 0]]

\* _sign, over every field but the signature.
Sign(key, data) == [key |-> key, message |-> data]

\* verify, by a ledger that was started with the given key.
Verify(key, receipt) == receipt.signature = Sign(key, receipt.data)

LedgerInit == receipts = {} /\ secret \in Keys

\* Bug: the file is named after the symbol, and the next receipt replaces it.
SaveBySymbol(data) ==
  receipts' = {r \in receipts : r.data.symbol # data.symbol}
                \cup {[data |-> data, signature |-> Sign(secret, data)]}

\* _save, under a name of its own.
Save(data) == receipts' = receipts \cup {[data |-> data, signature |-> Sign(secret, data)]}

\* generate: the receipt is saved, or an OSError is logged and nothing else.
Generate(data, saved) == /\ IF saved THEN Save(data) ELSE UNCHANGED receipts
                         /\ UNCHANGED secret

\* __init__: the directory stays, and the key may be another one.
Reopen == /\ secret' \in Keys
          /\ UNCHANGED receipts
=============================================================================
