---------------------------- MODULE MCPhaseWork ----------------------------
(* Small instances of PhaseWork.                                           *)
EXTENDS PhaseWork

\* Two of the built-in skills, one that the worker has no permission for, and
\* a generated one with an external effect.
AllSkills == {"memory.get", "memory.write", "web.search", "generated"}
Web == {"web.search"}

NeedsOf == [s \in AllSkills |->
  CASE s = "memory.get" -> {"memory.read"}
    [] s = "memory.write" -> {"memory.write"}
    [] s = "web.search" -> {"web.read"}
    [] OTHER -> {}]

EffectOf == [s \in AllSkills |->
  CASE s = "memory.write" -> "local_write"
    [] s = "generated" -> "external"
    [] OTHER -> "read"]

Default == {"memory.read", "memory.write", "library.read"}

Call(s, p) == [skill |-> s, params |-> p]

AnyCall == {Call("memory.get", "valid"), Call("memory.write", "valid"),
            Call("memory.write", Malformed), Call("web.search", "valid"),
            Call("generated", "valid"), Call("hallucinated", "valid")}
=============================================================================
