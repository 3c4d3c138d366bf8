------------------------------ MODULE MCConfigStore ------------------------------
(* Two processes, alone or together, and two provider ids.                          *)
EXTENDS ConfigStore

CONSTANTS a, b

(* Either process a alone, or both together.                                        *)
MCCrews == {{a}, {a, b}}
Together == {{a, b}}
==================================================================================
