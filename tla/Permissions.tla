----------------------------- MODULE Permissions -----------------------------
(***************************************************************************)
(* The permission matrix (packages/shared/src/permissions.ts), which the   *)
(* backend enforces (Access) and the front ends' routes go by (Navigation). *)
(***************************************************************************)

ADMIN_PERMISSIONS ==
    {"products:read", "products:write", "products:delete", "categories:read",
     "categories:write", "categories:delete", "orders:create", "orders:read",
     "orders:update", "orders:cancel", "users:read", "users:write", "users:delete",
     "reports:view", "business:manage", "branches:manage", "kitchen_stations:read",
     "kitchen_stations:write"}

ROLE_PERMISSIONS == [
    super_admin |-> ADMIN_PERMISSIONS \cup {"platform:manage"},
    admin       |-> ADMIN_PERMISSIONS,
    manager     |-> {"products:read", "products:write", "categories:read", "categories:write",
                     "orders:read", "orders:update", "orders:cancel", "users:read",
                     "users:write", "reports:view", "kitchen_stations:read",
                     "kitchen_stations:write"},
    supervisor  |-> {"products:read", "categories:read", "orders:read", "orders:update",
                     "orders:cancel", "reports:view"},
    cashier     |-> {"products:read", "categories:read", "orders:create", "orders:read",
                     "orders:update", "kitchen_stations:read"},
    waiter      |-> {"products:read", "categories:read", "orders:create", "orders:read",
                     "kitchen_stations:read"},
    kitchen     |-> {"orders:read", "orders:update", "kitchen_stations:read"}]

hasPermission(role, p) ==
    role = "super_admin" \/ p \in ROLE_PERMISSIONS[role]
=============================================================================
