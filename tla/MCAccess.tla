----------------------------- MODULE MCAccess -----------------------------
(* Access with one account that may be a cashier's, an admin's or a super  *)
(* admin's: MCPickedBusiness.cfg (MCParts has the same instance).          *)
EXTENDS Access

Grant(role, biz, ids) == [role |-> role, business |-> biz, branches |-> ids]
MCGrants ==
    {Grant("cashier", "b", {"x"}), Grant("admin", "b", {}), Grant("super_admin", "*", {})}
MCBranchOwner == [x \in {"x", "y"} |-> "b"]
=============================================================================
