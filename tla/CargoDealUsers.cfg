SPECIFICATION Spec
CONSTANTS
    c1 = c1
    k1 = k1
    k2 = k2
    owner = owner
    job = job
    atOwner = atOwner
    atJob = atJob
    at1 = at1
    at2 = at2
    Cargos = {c1}
    Carriers = {k1, k2}
    Copies = {1, 2}
    Owner = owner
    Job = job
    Hands = {atOwner, atJob, at1, at2}
    UserOf <- OneHandEach
    MaxEvents = 3
    None = None
CHECK_DEADLOCK FALSE
INVARIANTS
      AcceptedIsCarrier
    
    

    
    
