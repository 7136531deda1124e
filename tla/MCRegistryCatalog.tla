-------------------------- MODULE MCRegistryCatalog --------------------------
(***************************************************************************)
(* A workflow the repository ships, two edits of it of which one needs a    *)
(* capability, a second version, a skill, and a memory in two               *)
(* classifications.                                                         *)
(***************************************************************************)
EXTENDS RegistryCatalog, TLC

Object(kind, name, version) == [kind |-> kind, name |-> name, version |-> version]

Flow == Object("workflows", "flow", 1)
NewFlow == Object("workflows", "flow", 2)
Skill == Object("skills", "review", 1)
Memory == Object("semantic-memories", "taste", 1)

Fetch == Object("capabilities", "fetch", 1)

MCObjects == {Flow, NewFlow, Skill, Memory, Fetch}

Content(o, body, needs) ==
    [object |-> o, body |-> body, needs |-> needs, rank |-> 0, enabled |-> TRUE]

Shipped == Content(Flow, "shipped", {})
Record == Content(Fetch, "record", {})
\* Two edits of the same workflow, for a publish and an update of one draft.
MCEdits == {Content(Flow, "edited", {Fetch}), Content(Flow, "edited again", {})}
MCContents == MCEdits \union
    { Content(NewFlow, "new", {}), Content(Skill, "skill", {}), Content(Memory, "likes", {}),
      [Content(Memory, "secret", {}) EXCEPT !.rank = 2] }

MCConfigFiles == [o \in MCObjects |-> IF o = Flow THEN Shipped
                                     ELSE IF o = Fetch THEN Record ELSE NoContent]

CallerSymmetry == Permutations(Callers)
=============================================================================
