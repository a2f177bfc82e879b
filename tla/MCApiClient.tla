----------------------------- MODULE MCApiClient -----------------------------
(***************************************************************************)
(* Instances of ApiClient for TLC.                                         *)
(***************************************************************************)
EXTENDS ApiClient

\* A host in front of a running backend, and one that only serves files.
Deployed == {{"/api", "/health"}, {}}

\* vite.config.ts:14-19, for "pnpm dev" and "pnpm preview".
DevServer == {{"/api"}}
=============================================================================
