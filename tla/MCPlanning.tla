----------------------------- MODULE MCPlanning -----------------------------
(* What a session looks at and decides before it takes locks, each in behaviours of  *)
(* its own: where the chain of a discovery directory and the SKILL.md of a Skill     *)
(* lead, what the Codex inventory holds, which Skill each name selects, whether the  *)
(* forwarded arguments pass, and what is planned for each name. While one of them    *)
(* goes on the others stand still.                                                   *)
EXTENDS SkillFile, MCDiscovery, MCMountPlan, MCCatalog, Arguments

chainVars == <<walkVars, skillVars>>

NoChain ==
    /\ names = [p \in Path |-> NoEntry] /\ body = [e \in Entry |-> "other"]
    /\ path = Start /\ visited = {} /\ hops = <<>> /\ state = "missing"
    /\ inside = {} /\ where = Start /\ seen = {} /\ links = <<>> /\ outcome = "broken"

NoInventory ==
    /\ entries = <<>> /\ skill = <<>> /\ followsLinks = FALSE
    /\ pending = <<>> /\ observed = {} /\ found = {} /\ inspected = 0 /\ expanded = {}
    /\ progress = "refused"

NoCatalog ==
    /\ sources = <<>> /\ skills = <<>> /\ catalogPolicy = <<>> /\ level = "None"
    /\ phase = "EmptyCatalog" /\ next = 1
    /\ selected = <<>> /\ shadowed = [k \in Key |-> <<>>] /\ validated = {}

NoArguments ==
    /\ agent = "codex" /\ mountMode = "staging" /\ args = <<>> /\ at = 1 /\ open = TRUE
    /\ home = FALSE /\ dirs = {} /\ stage = "walk" /\ ruling = "rejected"

NoMounts ==
    /\ listing = <<>> /\ roots = <<>> /\ policy = "error" /\ folding = <<>> /\ kept = <<>>
    /\ verdict = [a \in Name |-> "conflict"]

MCInit ==
    \/ WalksInit /\ NoInventory /\ NoCatalog /\ NoArguments /\ NoMounts
    \/ NoChain /\ InventoryInit /\ NoCatalog /\ NoArguments /\ NoMounts
    \/ NoChain /\ NoInventory /\ CatalogInit /\ NoArguments /\ NoMounts
    \/ NoChain /\ NoInventory /\ NoCatalog /\ ArgumentsInit /\ NoMounts
    \/ NoChain /\ NoInventory /\ NoCatalog /\ NoArguments /\ Init

MCNext ==
    \/ WalksNext /\ UNCHANGED <<inventoryVars, catalogVars, argumentVars, vars>>
    \/ InventoryNext /\ UNCHANGED <<chainVars, catalogVars, argumentVars, vars>>
    \/ CatalogNext /\ UNCHANGED <<chainVars, inventoryVars, argumentVars, vars>>
    \/ ArgumentsNext /\ UNCHANGED <<chainVars, inventoryVars, catalogVars, vars>>
    \/ Next /\ UNCHANGED <<chainVars, inventoryVars, catalogVars, argumentVars>>

MCSpec == MCInit /\ [][MCNext]_<<chainVars, inventoryVars, catalogVars, argumentVars, vars>>
=============================================================================
