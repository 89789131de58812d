----------------------------- MODULE MCPlanForm -----------------------------
(***************************************************************************)
(* The dashboard in a browser of one wallet, with calls of the provider    *)
(* and submissions that overlap, on a server that is on the browser's      *)
(* network or on another one.                                              *)
(***************************************************************************)
EXTENDS PlanForm

CONSTANTS son, f1, f2, v1, v2

NoOverrides ==
    [x \in {"STELLAR_HORIZON_URL", "STELLAR_NETWORK_PASSPHRASE", "SOROBAN_RPC_URL",
            "SOROBAN_BAKTI_CONTRACT_ID", "USDC_ASSET_ISSUER",
            "NEXT_PUBLIC_STELLAR_HORIZON_URL", "NEXT_PUBLIC_SOROBAN_RPC_URL",
            "NEXT_PUBLIC_BAKTI_CONTRACT_ID", "NEXT_PUBLIC_USDC_ISSUER",
            "NEXT_PUBLIC_STELLAR_NETWORK", "STELLAR_NETWORK"} |-> Unset]

\* Both sides on testnet; the server alone, the browser on its default.
MCEnvs ==
    {[NoOverrides EXCEPT !.STELLAR_NETWORK = "testnet",
                         !.NEXT_PUBLIC_STELLAR_NETWORK = browser]
        : browser \in {"testnet", Unset}}

MCTotals == 0..40
MCShareLists == {<<50, 50>>, <<33, 33, 34>>, <<50, 30, 20>>, <<0, 1, 99>>, <<100>>}
=============================================================================
