SPECIFICATION ConfigSpec
CONSTANTS
    openai = openai
    ollama = ollama
    neo = neo
    Admins = {a1, a2}
    Personas = {neo}
    Providers = {openai, ollama}
    EnvKeyed = {openai}
    Keyless = {ollama}
    MaxChain = 2
    Bodies <- Saves
    Keep = 2
    MaxRequests = 2
    Seeds <- Before
    Documents <- Files
    Overrides <- PersonaFiles
    Org = Org
    None = None
SYMMETRY Interchangeable
CHECK_DEADLOCK FALSE
INVARIANTS
    KeysStayHome
    DiffsAreTrue
PROPERTIES
    EditsKeepKeys
