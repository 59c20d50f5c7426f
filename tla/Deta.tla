------------------------------- MODULE Deta -------------------------------
(***************************************************************************)
(* The "currency" base of the Deta service, as class Db reaches it         *)
(* (src/db/crud.cpp): every method is one HTTP request that the service    *)
(* executes atomically, and every method hands the caller an HTTP status.  *)
(* Deta itself is not in the repository; what its operations do is taken   *)
(* from how the handlers build the requests and read the statuses.         *)
(*                                                                         *)
(* keys is the set of keys that have an item, base the items.  base is     *)
(* total; the item of a key outside keys is a placeholder nobody reads.    *)
(***************************************************************************)
EXTENDS Integers

CONSTANTS Users,         \* Discord users; a user's id is the key of the item
          FirstBankMax,  \* "bank_max" of a new item (5000 in the code)
          Faulty         \* may a request or its answer be lost?

\* Db::del builds its URL as url + "items/{}" + key without formatting it,
\* so the key it names is "{}" followed by the id, which is nobody's id.
DelKey(u) == <<"{}", u>>

ASSUME DetaAssumption == /\ FirstBankMax \in Nat
                         /\ Faulty \in BOOLEAN
                         /\ \A u \in Users : DelKey(u) \notin Users

VARIABLES keys, base

db == <<keys, base>>

BankTypes == 0..4   \* default, premium, royal, meme, USSR

Account == [bal: Int, bank: Int, bank_max: Int, bank_type: BankTypes]

\* The item _register posts, restricted to the fields coins depend on.
Fresh == [bal |-> 0, bank |-> 0, bank_max |-> FirstBankMax, bank_type |-> 0]

\* dpp reports 0 when it has no HTTP answer at all.
NoAnswer == 0

---------------------------------------------------------------------------
(* Patch requests: "increment" of bal and bank, and "set" of bal to zero   *)
(* (wipe) and of bank_type.                                                *)

Keep == -1          \* the request does not set bank_type

PatchRequest == [key: Users, bal: Int, bank: Int,
                 wipe: BOOLEAN, bank_type: BankTypes \cup {Keep}]

Increment(k, bal, bank) ==
  [key |-> k, bal |-> bal, bank |-> bank, wipe |-> FALSE, bank_type |-> Keep]

BuyType(k, price, type) ==
  [key |-> k, bal |-> -price, bank |-> 0, wipe |-> FALSE, bank_type |-> type]

Wipe(k) ==
  [key |-> k, bal |-> 0, bank |-> 0, wipe |-> TRUE, bank_type |-> Keep]

PatchedBankless(a, r) ==  \* mutant: a field the request leaves out is set too
  [bal       |-> IF r.wipe THEN 0 ELSE a.bal + r.bal,
   bank      |-> a.bank + r.bank,
   bank_max  |-> a.bank_max,
   bank_type |-> r.bank_type]

\* The item after the request.
Patched(a, r) ==
  [bal       |-> IF r.wipe THEN 0 ELSE a.bal + r.bal,
   bank      |-> a.bank + r.bank,
   bank_max  |-> a.bank_max,
   bank_type |-> IF r.bank_type = Keep THEN a.bank_type ELSE r.bank_type]

---------------------------------------------------------------------------
(* The methods of Db that change the base, with the status they return.    *)

\* Db::patch: 200 and applied, 404 without an item, or no answer, in which
\* case the service may or may not have executed the request.
Patch(r, status) ==
  /\ keys' = keys
  /\ \/ /\ status = 200
        /\ r.key \in keys
        /\ base' = [base EXCEPT ![r.key] = Patched(@, r)]
     \/ /\ status = 404
        /\ r.key \notin keys
        /\ base' = base
     \/ /\ status = NoAnswer
        /\ Faulty
        /\ base' = base
     \/ /\ status = NoAnswer
        /\ Faulty
        /\ r.key \in keys
        /\ base' = [base EXCEPT ![r.key] = Patched(@, r)]

\* Db::post is an insert: 201, or 409 when the key has an item already.
Post(k, status) ==
  \/ /\ status = 201 \/ (status = NoAnswer /\ Faulty)
     /\ k \notin keys
     /\ keys' = keys \cup {k}
     /\ base' = [base EXCEPT ![k] = Fresh]
  \/ /\ status = 409
     /\ k \in keys
     /\ UNCHANGED db
  \/ /\ status = NoAnswer
     /\ Faulty
     /\ UNCHANGED db

\* A delete answers 200 whether or not the key has an item.
Del(u, status) ==
  \/ /\ status = 200 \/ (status = NoAnswer /\ Faulty)
     /\ keys' = keys \ {DelKey(u)}
     /\ base' = base
  \/ /\ status = NoAnswer
     /\ Faulty
     /\ UNCHANGED db
===========================================================================
