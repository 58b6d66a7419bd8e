------------------------------ MODULE MCPricing ------------------------------
(* Instances of Pricing for TLC.                                           *)
EXTENDS Pricing, TLC

CONSTANTS c1, c2, xlm, usdc, junk, forwarder, factory, dex, wallet1, wallet2, executor, channel

Setup == [contract |-> factory, function |-> "create_account"]
Policies == {Setup, [contract |-> WalletContract, function |-> "add_signer"]}

\* A user-paid call in each token, and a wallet's setup call.
Good == [mode |-> "forward", contract |-> forwarder, function |-> forwardFn, token |-> usdc,
         target |-> dex, user |-> wallet1, wallet |-> wallet1, entries |-> {wallet1}]
InXLM == [Good EXCEPT !.token = xlm]
AddSigner == [Good EXCEPT !.mode = "sponsored", !.contract = wallet1, !.function = "add_signer",
                          !.token = junk]

\* One call for each rule that refuses it.
Bad == {[InXLM EXCEPT !.entries = {wallet1, executor}], [InXLM EXCEPT !.entries = {Source}],
        [InXLM EXCEPT !.target = forwarder], [InXLM EXCEPT !.user = wallet2],
        [InXLM EXCEPT !.token = junk], [InXLM EXCEPT !.contract = dex],
        [AddSigner EXCEPT !.contract = dex], [AddSigner EXCEPT !.entries = {channel}]}

\* One caller asks for anything; another, for a price.
Bodies == (c1 :> {Good, InXLM, AddSigner} \cup Bad) @@ (c2 :> {Good})
=============================================================================
