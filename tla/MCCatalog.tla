----------------------------- MODULE MCCatalog -----------------------------
(* Two agents, two skills and an MCP: one skill may be renamed, and each     *)
(* skill may come to depend on the other.                                   *)
EXTENDS Catalog, TLC

Entry(name, version, deps, prereqs) ==
    [name |-> name, version |-> version, deps |-> deps, prereqs |-> prereqs]

MCOrigin == {"agent", "helper", "skill", "lib", "mcp"}
MCName == {"Agent", "Helper", "Skill", "Skill2", "Lib", "Mcp"}
MCKindOf == [o \in MCOrigin |-> CASE o \in {"agent", "helper"} -> "agent" [] o = "mcp" -> "mcp" [] OTHER -> "skill"]

Clients == Permutations(Client)

MCContents == [o \in MCOrigin |->
    CASE o = "agent" -> {Entry("Agent", 1, {"skill"}, ""), Entry("Agent", 2, {"lib"}, "")}
      [] o = "helper" -> {Entry("Helper", 1, {"lib"}, "")}
      [] o = "skill" -> {Entry("Skill", 1, {"mcp"}, ""), Entry("Skill", 2, {"lib"}, "login"),
                         Entry("Skill2", 1, {"lib"}, "")}
      [] o = "lib" -> {Entry("Lib", 1, {}, ""), Entry("Lib", 2, {"skill"}, "")}
      [] o = "mcp" -> {Entry("Mcp", 1, {}, "")}]

MCInitially == [o \in MCOrigin |->
    CASE o = "agent" -> Entry("Agent", 1, {"skill"}, "")
      [] o = "helper" -> Entry("Helper", 1, {"lib"}, "")
      [] o = "skill" -> Entry("Skill", 1, {"mcp"}, "")
      [] o = "lib" -> Entry("Lib", 1, {}, "")
      [] o = "mcp" -> Entry("Mcp", 1, {}, "")]
=============================================================================
