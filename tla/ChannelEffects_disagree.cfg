SPECIFICATION FairSpec
CONSTANTS
    role = role
    ev = ev
    yes = yes
    no = no
    first = e1
    Effect = {e1, e2}
    Client = {c1, c2}
    Recovery = recovery
    Target = {role}
    Event = {ev}
    Text = {yes, no}
    Stamp = {1, 2}
    Clock <- Readings
    Request <- DisagreeingRequests
    Audit = Audit
    Delivery = Delivery
    None = None
    MaxCrash = 1
    MaxLapse = 0
    MaxRaise = 0
PROPERTIES
    ChannelRecoveryCompletes
