---------------------------- MODULE MCHandlers ----------------------------
EXTENDS Handlers
CONSTANTS a, b, c, m1, m2
MCModuleOf == (a :> m1) @@ (b :> m2) @@ (c :> m2)
=============================================================================
