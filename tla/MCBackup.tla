------------------------------ MODULE MCBackup ------------------------------
(***************************************************************************)
(* A document for TLC: two keys with one label, the second with a broken   *)
(* secret; a channel without a secret, one without a label and one of a    *)
(* type that is refused; a rule for an asset and one for all, which names  *)
(* the refused channel.                                                    *)
(***************************************************************************)
EXTENDS Backup

CONSTANTS host, main, ops, pager

Document ==
    [assets   |-> <<host>>,
     keys     |-> <<[label |-> main, enabled |-> FALSE, secret |-> "sealed"],
                    [label |-> main, enabled |-> TRUE, secret |-> "broken"]>>,
     channels |-> <<[label |-> ops, enabled |-> TRUE, secret |-> "none", supported |-> TRUE],
                    [label |-> Blank, enabled |-> TRUE, secret |-> "sealed", supported |-> TRUE],
                    [label |-> pager, enabled |-> TRUE, secret |-> "sealed", supported |-> FALSE]>>,
     rules    |-> <<[asset |-> host, channels |-> {ops, Blank}],
                    [asset |-> Global, channels |-> {ops, pager}]>>]

=============================================================================
