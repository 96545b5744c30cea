---------------------------- MODULE MCNavigation ----------------------------
(* Navigation with everyone of MCParts: MCPosSuperAdmin.cfg.              *)
EXTENDS Navigation

MCVisitors ==
    [role : {"super_admin", "admin", "manager", "cashier", "kitchen"}, branches : {"none", "some"}]
=============================================================================
