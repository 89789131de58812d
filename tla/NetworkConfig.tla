--------------------------- MODULE NetworkConfig ---------------------------
(***************************************************************************)
(* Which network the server and the browser believe they are on: the       *)
(* tables and overrides of config/env.ts and config/env.public.ts, read by *)
(* stellar/network.ts on one side and stellarClient.ts on the other.       *)
(*                                                                         *)
(* The two sides read different variables.  An environment gives each a    *)
(* value or leaves it Unset.                                               *)
(***************************************************************************)
EXTENDS Integers

CONSTANT Unset

Networks == {"testnet", "public", "futurenet"}

\* The tables, alike on both sides; futurenet has testnet's contract and issuer.
HORIZON_URL_BY_NETWORK == [n \in Networks |-> <<"horizon", n>>]
NETWORK_PASSPHRASE_BY_NETWORK == [n \in Networks |-> <<"passphrase", n>>]
SOROBAN_RPC_URL_BY_NETWORK == [n \in Networks |-> <<"rpc", n>>]
Home == [n \in Networks |-> IF n = "public" THEN "public" ELSE "testnet"]
BAKTI_CONTRACT_ID_BY_NETWORK == [n \in Networks |-> <<"contract", Home[n]>>]
USDC_ASSET_ISSUER_BY_NETWORK == [n \in Networks |-> <<"issuer", Home[n]>>]

\* x ?? y, and a default.
Or(x, y) == IF x = Unset THEN y ELSE x
NetworkOf(x) == Or(x, "public")

\* What the server uses.
Server(env) ==
    LET n == NetworkOf(env.STELLAR_NETWORK) IN
    [horizon    |-> Or(env.STELLAR_HORIZON_URL, HORIZON_URL_BY_NETWORK[n]),
     passphrase |-> Or(env.STELLAR_NETWORK_PASSPHRASE, NETWORK_PASSPHRASE_BY_NETWORK[n]),
     rpc        |-> Or(env.SOROBAN_RPC_URL, SOROBAN_RPC_URL_BY_NETWORK[n]),
     contract   |-> Or(env.SOROBAN_BAKTI_CONTRACT_ID, BAKTI_CONTRACT_ID_BY_NETWORK[n]),
     issuer     |-> Or(env.USDC_ASSET_ISSUER, USDC_ASSET_ISSUER_BY_NETWORK[n])]

\* What the browser uses; it has no override of the passphrase.
Browser(env) ==
    LET n == NetworkOf(env.NEXT_PUBLIC_STELLAR_NETWORK) IN
    [horizon    |-> Or(env.NEXT_PUBLIC_STELLAR_HORIZON_URL, HORIZON_URL_BY_NETWORK[n]),
     passphrase |-> NETWORK_PASSPHRASE_BY_NETWORK[n],
     rpc        |-> Or(env.NEXT_PUBLIC_SOROBAN_RPC_URL, SOROBAN_RPC_URL_BY_NETWORK[n]),
     contract   |-> Or(env.NEXT_PUBLIC_BAKTI_CONTRACT_ID, BAKTI_CONTRACT_ID_BY_NETWORK[n]),
     issuer     |-> Or(env.NEXT_PUBLIC_USDC_ISSUER, USDC_ASSET_ISSUER_BY_NETWORK[n])]
=============================================================================
