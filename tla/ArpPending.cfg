SPECIFICATION ArpSpec
CONSTANTS
  ARP_ENTRIES = 3
  Subnet = {r, a, b}
  Outside = {x}
  router_ip = r
  None = None
  Broadcast = Broadcast
INVARIANTS
  StoredFramesRight
