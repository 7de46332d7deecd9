SPECIFICATION Spec
CONSTANTS
    NumTsbs = 1
    Services = {"live", "files"}
    MaxEvents = 1
    MaxDisturbances = 1
INVARIANTS TypeOK 
  
