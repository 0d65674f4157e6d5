---------------------------- MODULE PriceOracle ----------------------------
(***************************************************************************)
(* The methods of PriceOracle (oracle_price.rs) as functions of its        *)
(* record: M(o, ...) is the component after the call, CanM(o, ...) says    *)
(* that the call does not panic.                                           *)
(*                                                                         *)
(* A signed price is a record of what the signed message says: the token   *)
(* XRD is quoted in, the epoch, the timestamp, and the key that signed it. *)
(* Of price_map only the tokens are kept: the unsigned prices in it are    *)
(* read by get_price_quote_in_xrd alone, which returns zero whatever they  *)
(* are.                                                                    *)
(***************************************************************************)
EXTENDS Integers

Instantiate(price_signer_pk, max_diff) ==
    [price_map |-> {}, pk_str |-> price_signer_pk,
     last_validation_epoch |-> 0, last_validation_timestamp |-> 0,
     max_diff |-> max_diff]

SetPriceQuoteInXrd(o, res_addr) == [o EXCEPT !.price_map = @ \cup {res_addr}]

SetValidityPeriod(o, validity_period_ms) == [o EXCEPT !.max_diff = validity_period_ms]

SetVerifyPublicKey(o, price_signer_pk) == [o EXCEPT !.pk_str = price_signer_pk]

\* The message is rebuilt with the current epoch, so that a signature of another epoch
\* does not verify.
CanGetValidPriceInXrd(o, epoch_at, p) ==
    /\ p.quote \in o.price_map
    /\ p.key = o.pk_str /\ p.epoch = epoch_at
    /\ o.last_validation_epoch = epoch_at
          => o.last_validation_timestamp - p.timestamp < o.max_diff

\* Mutant: the timestamp of the last price is kept, not the latest one.
GetValidPriceKeepingLast(o, epoch_at, p) ==
    [o EXCEPT !.last_validation_epoch = epoch_at, !.last_validation_timestamp = p.timestamp]

\* get_valid_price_in_xrd keeps the latest timestamp of the epoch.
GetValidPriceInXrd(o, epoch_at, p) ==
    IF o.last_validation_epoch < epoch_at
    THEN [o EXCEPT !.last_validation_epoch = epoch_at,
                   !.last_validation_timestamp = p.timestamp]
    ELSE IF o.last_validation_epoch = epoch_at /\ o.last_validation_timestamp < p.timestamp
    THEN [o EXCEPT !.last_validation_timestamp = p.timestamp]
    ELSE o
=============================================================================
